---- MODULE Spec2Model ----
(***************************************************************************)
(* A model of dbsample: the dependency resolver (dependencies.py), the     *)
(* limit-rule matcher and the sampling engine with its FK closure          *)
(* (sampling.py) and the staging manager (staging.py).                     *)
(*                                                                         *)
(* Names (schemas, tables, columns, patterns) are sequences of one-letter  *)
(* strings, so that pattern matching and lexicographic comparison are      *)
(* computed and not assumed.  Rows are tuples of values in column order;   *)
(* the SQL NULL / Python None is the value NULL.                           *)
(***************************************************************************)
EXTENDS Integers, Sequences, FiniteSets, TLC

VARIABLES
    tables,            \* the discovered List[Table], in discovery order
    hashOrd,           \* this process's iteration order of sets of names
    insertion_order,   \* last value returned by get_insertion_order()
    constraint_order,  \* last value returned by get_constraint_creation_order()
    circular,          \* last results of has_circular_dependencies() and get_circular_groups()
    limit_rules,       \* SamplingEngine.limit_rules, in declaration order
    found,             \* last call of _find_limit_rule: its table and its result
    schema_exists,     \* the database has a namespace of the staging schema's name
    schema_created,    \* StagingManager._schema_created
    mgr_log,           \* the calls made on the StagingManager, oldest first
    db,                \* the source database: table -> its rows in heap order
    ordered,           \* SamplingEngine.ordered
    ordered_desc,      \* SamplingEngine.ordered_desc
    exclude_columns,   \* SamplingEngine.exclude_columns
    verbose,           \* SamplingEngine.verbose
    use_staging,       \* SamplingEngine.use_staging (with a staging_manager)
    pc,                \* where sample_all() stands
    idx,               \* position of the running loop of sample_all()
    results,           \* SamplingEngine.results: table -> rows
    result_keys,       \* the keys of SamplingEngine.results in dict order
    sampled_rows,      \* SamplingEngine.sampled_rows: table -> set of PK tuples
    row_count,         \* SamplingResult.row_count of each entry of results
    warnings,          \* the warnings the engine has logged, oldest first
    staging,           \* the staging schema: staging table name -> rows
    first_run,         \* what an earlier run of the program on the same inputs returned
    opts,              \* main(): the options after merging, as a record
    main_pc,           \* where main() stands
    exit_code,         \* the status the process exited with
    connected,         \* a database connection has been attempted
    verification,      \* what verify_referential_integrity() returned
    output,            \* what was written to the output file or stdout
    report,            \* the dry-run estimate table: table -> source, estimated
    given,             \* the option keys present on the command line
    cli_args,          \* cli_args_dict: what click passed to main(), by key
    config_values,     \* the loaded and normalised configuration file
    effective          \* main()'s option variables after the merge, by key

inputVars ==
    <<tables, hashOrd, limit_rules, db, ordered, ordered_desc, exclude_columns,
      verbose, use_staging>>

engineVars ==
    <<pc, idx, results, result_keys, sampled_rows, row_count, warnings, staging>>

runVars == <<first_run>>

configVars == <<given, cli_args, config_values, effective>>

mainVars == <<opts, main_pc, exit_code, connected, verification, output, report>>

resolverVars == <<insertion_order, constraint_order, circular>>

ruleVars == <<found>>

managerVars == <<schema_exists, schema_created, mgr_log>>

vars ==
    <<inputVars, resolverVars, ruleVars, managerVars, engineVars, runVars, mainVars,
      configVars>>

\* No configuration file is merged.
ConfigIdle ==
    /\ given = {}
    /\ cli_args = <<>>
    /\ config_values = <<>>
    /\ effective = <<>>

----------------------------------------------------------------------------
(* Generic helpers *)

\* Column values are positive integers; 0 stands for SQL NULL / Python None.
NULL == 0

Range(s) == {s[i] : i \in DOMAIN s}

Reversed(s) == [i \in 1..Len(s) |-> s[Len(s) + 1 - i]]

IsPermutationOf(s, S) ==
    /\ Len(s) = Cardinality(S)
    /\ \A x \in S : \E i \in DOMAIN s : s[i] = x

\* All sequences that enumerate the finite set S exactly once.
Perms(S) ==
    {s \in [1..Cardinality(S) -> S] : \A x \in S : \E i \in DOMAIN s : s[i] = x}

IndexOf(s, x) == CHOOSE i \in DOMAIN s : s[i] = x

\* Code points of the characters used in names and patterns.
Code(c) ==
    CASE c = "*" -> 42 [] c = "." -> 46 [] c = "?" -> 63
      [] c = "A" -> 65 [] c = "B" -> 66 [] c = "P" -> 80
      [] c = "a" -> 97 [] c = "b" -> 98 [] c = "c" -> 99 [] c = "d" -> 100
      [] c = "i" -> 105 [] c = "p" -> 112 [] c = "q" -> 113
      [] c = "r" -> 114 [] c = "v" -> 118 [] c = "x" -> 120

\* Python's str < str: code point by code point, a proper prefix is smaller.
RECURSIVE StrLess(_, _)
StrLess(s, t) ==
    IF t = <<>> THEN FALSE
    ELSE IF s = <<>> THEN TRUE
    ELSE IF Code(Head(s)) # Code(Head(t)) THEN Code(Head(s)) < Code(Head(t))
    ELSE StrLess(Tail(s), Tail(t))

----------------------------------------------------------------------------
(* schema.py: Table and ForeignKey *)

Dot == <<".">>

QualifiedName(t) == t.schema \o Dot \o t.name

HasPrimaryKey(t) == Len(t.primary_key) > 0

RefTable(fk) == fk.referenced_schema \o Dot \o fk.referenced_table

\* self.tables = {t.qualified_name: t for t in tables}: the keys in list order.
TableNames(tbls) == [i \in DOMAIN tbls |-> QualifiedName(tbls[i])]

TableNameSet(tbls) == Range(TableNames(tbls))

TableOf(tbls, qn) == tbls[CHOOSE i \in DOMAIN tbls : QualifiedName(tbls[i]) = qn]

----------------------------------------------------------------------------
(* dependencies.py: DependencyResolver *)

\* _dependency_graph: table -> the discovered tables its FKs reference.
DependencyGraph(tbls) ==
    [qn \in TableNameSet(tbls) |->
        {RefTable(TableOf(tbls, qn).foreign_keys[k]) :
            k \in DOMAIN TableOf(tbls, qn).foreign_keys} \cap TableNameSet(tbls)]

\* _reverse_graph: table -> the discovered tables that reference it.
ReverseGraph(tbls) ==
    [qn \in TableNameSet(tbls) |->
        {d \in TableNameSet(tbls) : qn \in DependencyGraph(tbls)[d]}]

\* Iterating a Python set of strings: the order is that of the process's string
\* hashes (hashOrd), the same for every iteration within one process.
SetIter(S, h) ==
    IF S = {} THEN <<>>
    ELSE IF Cardinality(S) = 1 THEN <<CHOOSE x \in S : TRUE>>
    ELSE LET In(x) == x \in S IN SelectSeq(h, In)

\* The names that can meet in an iterated set of two or more elements: only
\* tables with a dependency are ever in _reverse_graph[t] or in `remaining`.
HashNames(tbls) == {qn \in TableNameSet(tbls) : DependencyGraph(tbls)[qn] # {}}

\* The body of "for dependent in self._reverse_graph[table_name]".
RECURSIVE Release(_, _, _)
Release(deps, queue, in_degree) ==
    IF deps = <<>> THEN [queue |-> queue, in_degree |-> in_degree]
    ELSE LET d  == Head(deps)
             nd == [in_degree EXCEPT ![d] = @ - 1]
         IN  Release(Tail(deps), IF nd[d] = 0 THEN Append(queue, d) ELSE queue, nd)

\* The "while queue" loop of get_insertion_order.
RECURSIVE KahnLoop(_, _, _, _, _)
KahnLoop(tbls, h, queue, result, in_degree) ==
    IF queue = <<>> THEN result
    ELSE LET table_name == Head(queue)
             after == Release(SetIter(ReverseGraph(tbls)[table_name], h),
                              Tail(queue), in_degree)
         IN  KahnLoop(tbls, h, after.queue, Append(result, table_name),
                      after.in_degree)

KahnResult(tbls, h) ==
    LET in_degree == [qn \in TableNameSet(tbls) |->
                         Cardinality(DependencyGraph(tbls)[qn])]
        Zero(qn)  == in_degree[qn] = 0
    IN  KahnLoop(tbls, h, SelectSeq(TableNames(tbls), Zero), <<>>, in_degree)

\* A resolver that forgets the tables Kahn's algorithm leaves over.
GetInsertionOrder_DropRemaining(tbls, h) == KahnResult(tbls, h)

GetInsertionOrder(tbls, h) ==
    LET result    == KahnResult(tbls, h)
        remaining == TableNameSet(tbls) \ Range(result)
    IN  IF remaining # {} THEN result \o SetIter(remaining, h) ELSE result

GetConstraintCreationOrder(tbls, h) == Reversed(GetInsertionOrder(tbls, h))

\* has_circular_dependencies
HasCircularDependencies(tbls, h) == Len(GetInsertionOrder(tbls, h)) < Len(tbls)

\* Iterating _dependency_graph[start]: the names that carry a hash position
\* first, in that order; a name without one belongs to a table without
\* dependencies, whose visit returns at once wherever it stands.
NeighborIter(S, h) ==
    LET hashed == S \cap Range(h)
        others == S \ Range(h)
    IN  SetIter(hashed, h) \o (IF others = {} THEN <<>>
                               ELSE CHOOSE s \in Perms(others) : TRUE)

\* find_cycle(start, path) with the visited set it shares between calls: the
\* cycle it returns and the visited set it leaves.
RECURSIVE FindCycle(_, _, _, _, _)
RECURSIVE TryNeighbors(_, _, _, _, _)
FindCycle(g, h, start, path, visited) ==
    IF start \in Range(path)
    THEN [cycle |-> SubSeq(path, IndexOf(path, start), Len(path)), visited |-> visited]
    ELSE IF start \in visited THEN [cycle |-> <<>>, visited |-> visited]
    ELSE TryNeighbors(g, h, NeighborIter(g[start], h), Append(path, start),
                      visited \cup {start})

\* The loop "for neighbor in self._dependency_graph.get(start, [])".
TryNeighbors(g, h, neighbors, path, visited) ==
    IF neighbors = <<>> THEN [cycle |-> <<>>, visited |-> visited]
    ELSE LET r == FindCycle(g, h, Head(neighbors), path, visited)
         IN  IF r.cycle # <<>> THEN r
             ELSE TryNeighbors(g, h, Tail(neighbors), path, r.visited)

\* cycle[start_idx:] + cycle[:start_idx] for the first position of the
\* smallest name
Normalized(cycle) ==
    LET start_idx == CHOOSE i \in DOMAIN cycle :
                         /\ \A j \in DOMAIN cycle : ~StrLess(cycle[j], cycle[i])
                         /\ \A j \in 1..(i - 1) : cycle[j] # cycle[i]
    IN  SubSeq(cycle, start_idx, Len(cycle)) \o SubSeq(cycle, 1, start_idx - 1)

\* The loop "for table_name in self.tables" of get_circular_groups.
RECURSIVE GroupsLoop(_, _, _, _, _)
GroupsLoop(g, h, names, visited, groups) ==
    IF names = <<>> THEN groups
    ELSE IF Head(names) \in visited THEN GroupsLoop(g, h, Tail(names), visited, groups)
    ELSE LET r == FindCycle(g, h, Head(names), <<>>, visited)
         IN  GroupsLoop(g, h, Tail(names), r.visited,
                        IF r.cycle # <<>> THEN Append(groups, Normalized(r.cycle))
                        ELSE groups)

\* get_circular_groups
GetCircularGroups(tbls, h) ==
    GroupsLoop(DependencyGraph(tbls), h, TableNames(tbls), {}, <<>>)

----------------------------------------------------------------------------
(* sampling.py: limit rules and _find_limit_rule *)

\* str.lower() on the letters used here: what re.IGNORECASE compares.
Fold(c) ==
    CASE c = "A" -> "a" [] c = "B" -> "b" [] c = "P" -> "p" [] OTHER -> c

\* compiled_pattern.match(text) for "^" + re.escape(pattern).replace("\*", ".*")
\* + "$" under re.IGNORECASE, as the backtracking matcher runs it: "*" stands
\* for ".*", every other character for itself.
RECURSIVE RegexMatch(_, _)
RegexMatch(pattern, text) ==
    IF pattern = <<>> THEN text = <<>>
    ELSE IF Head(pattern) = "*"
         THEN \/ RegexMatch(Tail(pattern), text)
              \/ text # <<>> /\ RegexMatch(pattern, Tail(text))
    ELSE /\ text # <<>>
         /\ Fold(Head(pattern)) = Fold(Head(text))
         /\ RegexMatch(Tail(pattern), Tail(text))

\* The condition of the if in _find_limit_rule's loop.
RuleMatches(rule, table) ==
    \/ RegexMatch(rule.pattern, QualifiedName(table))
    \/ RegexMatch(rule.pattern, table.name)
    \/ RegexMatch(rule.pattern, table.schema \o <<".", "*">>)

RECURSIVE FindFrom(_, _, _)
FindFrom(table, rules, i) ==
    IF i > Len(rules) THEN 0
    ELSE IF RuleMatches(rules[i], table) THEN i
    ELSE FindFrom(table, rules, i + 1)

\* A matcher that keeps looking and returns the last matching rule.
FindLimitRule_LastMatch(table, rules) ==
    LET hits == {i \in DOMAIN rules : RuleMatches(rules[i], table)}
    IN  IF hits = {} THEN 0 ELSE CHOOSE i \in hits : \A j \in hits : j <= i

\* _find_limit_rule: the position of the returned rule in limit_rules, 0 for None.
FindLimitRule(table, rules) == FindFrom(table, rules, 1)

MkRule(pattern, limit_type, value) ==
    [pattern |-> pattern, limit_type |-> limit_type, value |-> value]

NoCall == [table |-> <<>>, rule |-> 0]

RulesIdle == found = NoCall

CallFindLimitRule ==
    \E i \in DOMAIN tables :
        /\ found' = [table |-> QualifiedName(tables[i]),
                     rule |-> FindLimitRule(tables[i], limit_rules)]
        /\ UNCHANGED <<inputVars, runVars, configVars, mainVars, resolverVars, managerVars, engineVars>>

----------------------------------------------------------------------------
(* sampling.py: column exclusion, query building and query execution *)

Idx(n) == [i \in 1..n |-> i]

Min(a, b) == IF a < b THEN a ELSE b

Max(a, b) == IF a > b THEN a ELSE b

\* [i for i, col in enumerate(table.columns) if col["name"] in names]: the
\* positions come out in the table's column order, whatever the order of names.
ColIndices(table, names) ==
    LET In(i) == table.columns[i] \in Range(names)
    IN  SelectSeq(Idx(Len(table.columns)), In)

\* tuple(row[i] for i in indices)
Proj(row, indices) == [k \in DOMAIN indices |-> row[indices[k]]]

HasNull(t) == \E k \in DOMAIN t : t[k] = NULL

\* The value of the SQL row constructor ("c1", "c2", ...) on a row of the table.
RowValue(table, row, names) ==
    [k \in DOMAIN names |->
        row[CHOOSE i \in DOMAIN table.columns : table.columns[i] = names[k]]]

\* fnmatch.fnmatch on a POSIX system: case-sensitive, * any run, ? one character.
RECURSIVE FnMatch(_, _)
FnMatch(text, pattern) ==
    IF pattern = <<>> THEN text = <<>>
    ELSE IF Head(pattern) = "*"
         THEN \/ FnMatch(text, Tail(pattern))
              \/ text # <<>> /\ FnMatch(Tail(text), pattern)
    ELSE /\ text # <<>>
         /\ Head(pattern) = "?" \/ Head(pattern) = Head(text)
         /\ FnMatch(Tail(text), Tail(pattern))

HasDot(pattern) == \E k \in DOMAIN pattern : pattern[k] = "."

LastDot(pattern) ==
    CHOOSE k \in DOMAIN pattern :
        pattern[k] = "." /\ \A j \in DOMAIN pattern : pattern[j] = "." => j <= k

\* The columns one exclude pattern removes from the table.
ExcludedBy(table, pattern) ==
    IF HasDot(pattern)
    THEN LET table_pattern == SubSeq(pattern, 1, LastDot(pattern) - 1)
             col_pattern   == SubSeq(pattern, LastDot(pattern) + 1, Len(pattern))
         IN  IF \/ FnMatch(QualifiedName(table), table_pattern)
                \/ FnMatch(table.name, table_pattern)
             THEN IF FnMatch(<<"*">>, col_pattern) \/ col_pattern = <<"*">>
                  THEN Range(table.columns)
                  ELSE {c \in Range(table.columns) : FnMatch(c, col_pattern)}
             ELSE {}
    ELSE {c \in Range(table.columns) : FnMatch(c, pattern)}

\* _get_excluded_columns
GetExcludedColumns(table, excl) ==
    UNION {ExcludedBy(table, excl[k]) : k \in DOMAIN excl}

NoLimit == -1

\* A percentage limit without its lower bound of one row.
PercentageLimit_NoMinimum(total, p) == (total * p) \div 100

\* limit = max(1, int(total * limit_rule.value / 100)), for p >= 0
PercentageLimit(total, p) == Max(1, (total * p) \div 100)

\* _build_query: the SELECT as a record.  nulled[i] says that column i is
\* projected as the literal NULL; placeholders counts the %s of the text.  A
\* conditional rule's SQL fragment is a test "column IN (values)".
BuildQuery(table, rule, excl, ord, desc, total) ==
    LET excluded == GetExcludedColumns(table, excl)
        typ      == rule.limit_type
    IN  [nulled |-> [i \in DOMAIN table.columns |-> table.columns[i] \in excluded],
         where  |-> IF typ = "conditional" THEN rule.value
                    ELSE [column |-> <<>>, values |-> {}],
         filter |-> typ = "conditional",
         order  |-> IF ~ord THEN "none"
                    ELSE IF HasPrimaryKey(table) THEN "pk" ELSE "ctid",
         desc   |-> desc,
         limit  |-> CASE typ = "numeric" -> rule.value
                      [] typ = "percentage" -> PercentageLimit(total, rule.value)
                      [] typ = "none" -> 100
                      [] OTHER -> NoLimit,
         placeholders |-> IF typ \in {"numeric", "percentage"} THEN 1 ELSE 0,
         params |-> CASE typ = "numeric" -> <<rule.value>>
                      [] typ = "percentage" -> <<PercentageLimit(total, rule.value)>>
                      [] typ = "none" -> <<100>>
                      [] OTHER -> <<>>]

\* psycopg refuses a statement whose parameters do not fill its placeholders.
Executable(query) == query.placeholders = Len(query.params)

RECURSIVE TupleLess(_, _)
TupleLess(s, t) ==
    IF s = <<>> \/ t = <<>> THEN FALSE
    ELSE IF Head(s) # Head(t) THEN Head(s) < Head(t)
    ELSE TupleLess(Tail(s), Tail(t))

\* The orders in which the server may return the rows of the set R: the one
\* order of ORDER BY, the heap order for ctid, any order without ORDER BY.
RowOrders(table, query, rows) ==
    LET R == Range(rows)
        Key(r) == RowValue(table, r, table.primary_key)
    IN  CASE query.order = "pk" ->
               {s \in Perms(R) : \A i, j \in DOMAIN s : i < j =>
                   IF query.desc THEN TupleLess(Key(s[j]), Key(s[i]))
                   ELSE TupleLess(Key(s[i]), Key(s[j]))}
          [] query.order = "ctid" ->
               {IF query.desc THEN Reversed(rows) ELSE rows}
          [] OTHER -> Perms(R)

ProjectRow(query, row) ==
    [i \in DOMAIN row |-> IF query.nulled[i] THEN NULL ELSE row[i]]

\* The row lists cur.fetchall() can return for the sample query.
SelectResults(table, query, rows) ==
    LET Keep(r)  == \/ ~query.filter
                    \/ RowValue(table, r, <<query.where.column>>)[1]
                           \in query.where.values
        kept     == SelectSeq(rows, Keep)
        n        == IF query.limit = NoLimit THEN Len(kept)
                    ELSE Min(query.limit, Len(kept))
    IN  {[i \in 1..n |-> ProjectRow(query, s[i])] : s \in RowOrders(table, query, kept)}

----------------------------------------------------------------------------
(* sampling.py: sample_all() in direct mode *)

Empty == <<>>        \* an empty dict

\* d[k] = v on a dict.
Put(d, k, v) == [x \in DOMAIN d \cup {k} |-> IF x = k THEN v ELSE d[x]]

\* The keys of a dict after d[k] = v: a new key goes last.
PutKey(keys, k) == IF k \in Range(keys) THEN keys ELSE Append(keys, k)

\* limit_rule is None
NoRule == [pattern |-> <<>>, limit_type |-> "none", value |-> 0]

RuleAt(rules, i) == IF i = 0 THEN NoRule ELSE rules[i]

\* The query _sample_table and the staging copy run for the table.
SampleQuery(table) ==
    BuildQuery(table, RuleAt(limit_rules, FindLimitRule(table, limit_rules)),
               exclude_columns, ordered, ordered_desc,
               Len(db[QualifiedName(table)]))

PkSet(table, rows) ==
    {Proj(rows[k], ColIndices(table, table.primary_key)) : k \in DOMAIN rows}

EngineIdle ==
    /\ pc = "ready"
    /\ idx = 0
    /\ results = Empty
    /\ result_keys = <<>>
    /\ sampled_rows = Empty
    /\ row_count = Empty
    /\ warnings = <<>>
    /\ staging = Empty

\* The process has not exited.
Running == -1

\* The options of main() at their click defaults.
NoOptions ==
    [dry_run |-> FALSE, verify |-> FALSE, keep |-> FALSE, force |-> FALSE,
     use_staging |-> FALSE, no_staging |-> FALSE, ordered |-> FALSE,
     ordered_asc |-> FALSE, ordered_desc |-> TRUE, desc_given |-> FALSE,
     dbname |-> FALSE, env_dbname |-> FALSE, limit |-> <<>>]

NoVerification == [called |-> FALSE, ok |-> TRUE, violations |-> <<>>]

\* main() is not running: the engine, the resolver or the manager is used alone.
MainIdle ==
    /\ opts = NoOptions
    /\ main_pc = "none"
    /\ exit_code = Running
    /\ connected = FALSE
    /\ verification = NoVerification
    /\ output = <<>>
    /\ report = <<>>

\* No earlier run.
NoRun == [ran |-> FALSE, keys |-> <<>>, rows |-> Empty]

NoDatabase ==
    /\ first_run = NoRun
    /\ ConfigIdle
    /\ MainIdle
    /\ db = Empty
    /\ ordered = FALSE
    /\ ordered_desc = TRUE
    /\ exclude_columns = <<>>
    /\ verbose = FALSE
    /\ use_staging = FALSE

\* sample_all(): the call of get_insertion_order() that opens either mode.
StartSampling ==
    /\ pc = "ready"
    /\ insertion_order' = GetInsertionOrder(tables, hashOrd)
    /\ pc' = "sampling"
    /\ idx' = 1
    /\ UNCHANGED <<inputVars, runVars, configVars, mainVars, constraint_order, circular, ruleVars, managerVars, results,
                   result_keys, sampled_rows, row_count, warnings, staging>>

\* After the last table of the first loop the closure pass begins.
AfterLoop(next) == IF idx < Len(insertion_order) THEN "sampling" ELSE next

\* _sample_direct: one iteration of the loop over insertion_order.
SampleTable ==
    /\ pc = "sampling"
    /\ ~use_staging
    /\ LET table_name == insertion_order[idx]
           table      == TableOf(tables, table_name)
           query      == SampleQuery(table)
       IN  IF ~Executable(query)
           THEN /\ pc' = "failed"
                /\ UNCHANGED <<idx, results, result_keys, sampled_rows, row_count, warnings>>
           ELSE \E rows \in SelectResults(table, query, db[table_name]) :
                /\ results' = Put(results, table_name, rows)
                /\ result_keys' = PutKey(result_keys, table_name)
                /\ row_count' = Put(row_count, table_name, Len(rows))
                /\ UNCHANGED warnings
                /\ sampled_rows' =
                       IF HasPrimaryKey(table)
                       THEN Put(sampled_rows, table_name, PkSet(table, rows))
                       ELSE sampled_rows
                /\ pc' = AfterLoop("resolving")
                /\ idx' = IF idx < Len(insertion_order) THEN idx + 1 ELSE 1
    /\ UNCHANGED <<inputVars, runVars, configVars, mainVars, resolverVars, ruleVars, managerVars, staging>>

\* The (table, fk) pairs in the order of the two nested loops of
\* _resolve_foreign_keys: self.tables in dict order, then table.foreign_keys.
RECURSIVE FkList(_, _)
FkList(tbls, i) ==
    IF i > Len(tbls) THEN <<>>
    ELSE [k \in DOMAIN tbls[i].foreign_keys |-> <<i, k>>] \o FkList(tbls, i + 1)

\* non-NULL FK tuples of the table's sampled rows
ReferencedValues(table, fk, rows) ==
    {v \in {Proj(rows[k], ColIndices(table, fk.columns)) : k \in DOMAIN rows} :
        ~HasNull(v)}

\* referenced_values - self.sampled_rows[ref_table]
Missing(table, fk, res, sampled) ==
    LET rv == ReferencedValues(table, fk, res[QualifiedName(table)])
    IN  IF RefTable(fk) \in DOMAIN sampled THEN rv \ sampled[RefTable(fk)] ELSE rv

\* The FKs _resolve_foreign_keys acts on: both tables known, the referenced one
\* with a primary key.
Resolvable(tbls, table, fk, res) ==
    /\ QualifiedName(table) \in DOMAIN res
    /\ RefTable(fk) \in TableNameSet(tbls)
    /\ HasPrimaryKey(TableOf(tbls, RefTable(fk)))

\* The same query without its WHERE clause.
FetchResults_NoWhere(table, columns, values, rows) == Perms(Range(rows))

\* The row lists the IN query of _fetch_missing_rows can return.
FetchResults(table, columns, values, rows) ==
    LET Hit(r) == RowValue(table, r, columns) \in values
    IN  Perms(Range(SelectSeq(rows, Hit)))

\* _fetch_missing_rows: the fetched rows whose primary key is not yet present.
NewRows(table, existing, fetched) ==
    IF HasPrimaryKey(table)
    THEN LET Fresh(r) == Proj(r, ColIndices(table, table.primary_key))
                            \notin PkSet(table, existing)
         IN  SelectSeq(fetched, Fresh)
    ELSE fetched

\* The FK is skipped because the referenced table has no primary key.
SkippedWithoutPk(tbls, table, fk, res) ==
    /\ QualifiedName(table) \in DOMAIN res
    /\ RefTable(fk) \in TableNameSet(tbls)
    /\ ~HasPrimaryKey(TableOf(tbls, RefTable(fk)))

\* "if self.verbose: self.logger.warning(...)" for a skipped constraint
LoggedWarnings(w, v, table, fk) ==
    IF v THEN Append(w, [table |-> QualifiedName(table), constraint |-> fk.name])
    ELSE w

\* _resolve_foreign_keys: one iteration of the inner loop, with the call of
\* _fetch_missing_rows it makes.
ResolveForeignKey ==
    /\ pc = "resolving"
    /\ ~use_staging
    /\ idx <= Len(FkList(tables, 1))
    /\ LET table == tables[FkList(tables, 1)[idx][1]]
           fk    == table.foreign_keys[FkList(tables, 1)[idx][2]]
           ref   == RefTable(fk)
       IN  IF Resolvable(tables, table, fk, results)
              /\ Missing(table, fk, results, sampled_rows) # {}
           THEN LET ref_table == TableOf(tables, ref)
                    existing  == IF ref \in DOMAIN results THEN results[ref] ELSE <<>>
                IN  \E fetched \in FetchResults(ref_table, fk.referenced_columns,
                                     Missing(table, fk, results, sampled_rows), db[ref]) :
                        LET new_rows == NewRows(ref_table, existing, fetched)
                        IN  /\ results' = Put(results, ref, existing \o new_rows)
                            /\ result_keys' = PutKey(result_keys, ref)
                            /\ row_count' =
                                   Put(row_count, ref,
                                       (IF ref \in DOMAIN row_count
                                        THEN row_count[ref] ELSE 0) + Len(new_rows))
                            /\ UNCHANGED warnings
                            /\ sampled_rows' =
                                   IF HasPrimaryKey(ref_table)
                                   THEN Put(sampled_rows, ref,
                                            (IF ref \in DOMAIN sampled_rows
                                             THEN sampled_rows[ref] ELSE {})
                                            \cup PkSet(ref_table, new_rows))
                                   ELSE sampled_rows
           ELSE /\ warnings' = IF SkippedWithoutPk(tables, table, fk, results)
                               THEN LoggedWarnings(warnings, verbose, table, fk)
                               ELSE warnings
                /\ UNCHANGED <<results, result_keys, sampled_rows, row_count>>
    /\ idx' = idx + 1
    /\ UNCHANGED <<inputVars, runVars, configVars, mainVars, resolverVars, ruleVars,
                   managerVars, pc, staging>>

----------------------------------------------------------------------------
(* sampling.py: sample_all() in staging mode *)

\* The orders in which a SELECT without ORDER BY may return the rows.
Shuffles(rows) == {[i \in DOMAIN rows |-> rows[f[i]]] : f \in Perms(DOMAIN rows)}

\* create_staging_table: CREATE TABLE IF NOT EXISTS under the bare table name.
CreateStagingTable(stg, name) == IF name \in DOMAIN stg THEN stg ELSE Put(stg, name, <<>>)

\* _sample_with_staging, first pass: one iteration of the loop over
\* insertion_order, with create_staging_table and copy_data_to_staging.
StageTable ==
    /\ pc = "sampling"
    /\ use_staging
    /\ LET table_name == insertion_order[idx]
           table      == TableOf(tables, table_name)
           query      == SampleQuery(table)
           created    == CreateStagingTable(staging, table.name)
       IN  IF ~Executable(query)
           THEN /\ staging' = created
                /\ pc' = "failed"
                /\ UNCHANGED idx
           ELSE \E rows \in SelectResults(table, query, db[table_name]) :
                /\ staging' = Put(created, table.name, created[table.name] \o rows)
                /\ pc' = AfterLoop(IF FkList(tables, 1) = <<>> THEN "reading"
                                   ELSE "resolving")
                /\ idx' = IF idx < Len(insertion_order) THEN idx + 1 ELSE 1
    /\ UNCHANGED <<inputVars, runVars, configVars, mainVars, resolverVars, ruleVars, managerVars, results,
                   result_keys, sampled_rows, row_count, warnings>>

\* The rows of SELECT DISTINCT cols FROM staging.t t WHERE (cols) IS NOT NULL
\* AND NOT EXISTS (SELECT 1 FROM staging.ref r WHERE (cols) = (ref_cols)):
\* an unqualified column of the subquery is r's where r has one of that name.
StagingMissing(table, ref_table, fk, stg) ==
    LET T == Range(stg[table.name])
        R == Range(stg[fk.referenced_table])
        Inner(t, r) ==
            [k \in DOMAIN fk.columns |->
                IF fk.columns[k] \in Range(ref_table.columns)
                THEN RowValue(ref_table, r, <<fk.columns[k]>>)[1]
                ELSE RowValue(table, t, <<fk.columns[k]>>)[1]]
        Equal(t, r) ==
            /\ ~HasNull(Inner(t, r))
            /\ Inner(t, r) = RowValue(ref_table, r, fk.referenced_columns)
    IN  {RowValue(table, t, fk.columns) :
            t \in {u \in T : /\ ~HasNull(RowValue(table, u, fk.columns))
                             /\ ~\E r \in R : Equal(u, r)}}

\* The rows the INSERT ... SELECT * ... WHERE ref_cols = values LIMIT 1
\* statements can add, one statement per missing value.
RECURSIVE Inserted(_, _, _, _)
Inserted(ref_table, columns, order, rows) ==
    IF order = <<>> THEN {<<>>}
    ELSE LET M    == {r \in Range(rows) : RowValue(ref_table, r, columns) = Head(order)}
             rest == Inserted(ref_table, columns, Tail(order), rows)
         IN  IF M = {} THEN rest ELSE {<<r>> \o s : r \in M, s \in rest}

\* _resolve_foreign_keys_staging: one iteration of the inner loop.
ResolveForeignKeyStaging ==
    /\ pc = "resolving"
    /\ use_staging
    /\ idx <= Len(FkList(tables, 1))
    /\ LET table == tables[FkList(tables, 1)[idx][1]]
           fk    == table.foreign_keys[FkList(tables, 1)[idx][2]]
           ref   == RefTable(fk)
       IN  IF Resolvable(tables, table, fk, results)
           THEN LET ref_table == TableOf(tables, ref)
                IN  \E order \in Perms(StagingMissing(table, ref_table, fk, staging)) :
                    \E added \in Inserted(ref_table, fk.referenced_columns, order, db[ref]) :
                        staging' = Put(staging, fk.referenced_table,
                                       staging[fk.referenced_table] \o added)
           ELSE UNCHANGED staging
    /\ pc' = IF idx < Len(FkList(tables, 1)) THEN "resolving" ELSE "reading"
    /\ idx' = IF idx < Len(FkList(tables, 1)) THEN idx + 1 ELSE 1
    /\ UNCHANGED <<inputVars, runVars, configVars, mainVars, resolverVars, ruleVars, managerVars, results,
                   result_keys, sampled_rows, row_count, warnings>>

\* _sample_with_staging, third pass: one iteration of the loop over
\* insertion_order, with get_staging_data (a SELECT without ORDER BY).
ReadStaging ==
    /\ pc = "reading"
    /\ idx <= Len(insertion_order)
    /\ LET table_name == insertion_order[idx]
           table      == TableOf(tables, table_name)
       IN  \E rows \in Shuffles(staging[table.name]) :
               /\ results' = Put(results, table_name, rows)
               /\ result_keys' = PutKey(result_keys, table_name)
               /\ row_count' = Put(row_count, table_name, Len(rows))
    /\ idx' = idx + 1
    /\ UNCHANGED <<inputVars, runVars, configVars, mainVars, resolverVars, ruleVars,
                   managerVars, pc, sampled_rows, warnings, staging>>

\* _sample_with_staging returns self.results.
ReturnStagingResults ==
    /\ pc = "reading"
    /\ idx > Len(insertion_order)
    /\ pc' = "done"
    /\ UNCHANGED <<inputVars, runVars, configVars, mainVars, resolverVars, ruleVars, managerVars, idx, results,
                   result_keys, sampled_rows, row_count, warnings, staging>>

\* _sample_direct returns self.results.
ReturnResults ==
    /\ pc = "resolving"
    /\ ~use_staging
    /\ idx > Len(FkList(tables, 1))
    /\ pc' = "done"
    /\ UNCHANGED <<inputVars, runVars, configVars, mainVars, resolverVars, ruleVars, managerVars, idx, results,
                   result_keys, sampled_rows, row_count, warnings, staging>>

----------------------------------------------------------------------------
(* sampling.py: verify_referential_integrity *)

MaxSampleViolations == 10

\* The FKs verify_referential_integrity looks at: the table and the referenced
\* table both hold sampled rows, the referenced table has a primary key.
Verifiable(tbls, table, fk, res) ==
    /\ QualifiedName(table) \in DOMAIN res
    /\ res[QualifiedName(table)] # <<>>
    /\ RefTable(fk) \in TableNameSet(tbls)
    /\ HasPrimaryKey(TableOf(tbls, RefTable(fk)))
    /\ RefTable(fk) \in DOMAIN res
    /\ res[RefTable(fk)] # <<>>
    /\ ColIndices(table, fk.columns) # <<>>
    /\ ColIndices(TableOf(tbls, RefTable(fk)), fk.referenced_columns) # <<>>

\* missing_values = fk_values - ref_pk_values
MissingValues(tbls, table, fk, res) ==
    LET ref_table == TableOf(tbls, RefTable(fk))
        ref_rows  == res[RefTable(fk)]
    IN  ReferencedValues(table, fk, res[QualifiedName(table)])
            \ {Proj(ref_rows[k], ColIndices(ref_table, fk.referenced_columns)) :
                   k \in DOMAIN ref_rows}

\* The violation records in the order of the two nested loops; sample_size is
\* the length of sample_violations.
RECURSIVE Violations(_, _, _)
Violations(tbls, res, fks) ==
    IF fks = <<>> THEN <<>>
    ELSE LET table == tbls[Head(fks)[1]]
             fk    == table.foreign_keys[Head(fks)[2]]
             rest  == Violations(tbls, res, Tail(fks))
         IN  IF Verifiable(tbls, table, fk, res)
                /\ MissingValues(tbls, table, fk, res) # {}
             THEN <<[constraint |-> fk.name, table |-> QualifiedName(table),
                     referenced_table |-> RefTable(fk),
                     violation_count |->
                         Cardinality(MissingValues(tbls, table, fk, res)),
                     sample_size |->
                         Min(Cardinality(MissingValues(tbls, table, fk, res)),
                             MaxSampleViolations)]>> \o rest
             ELSE rest

\* verify_referential_integrity(): (is_valid, violations)
VerifyReferentialIntegrity(tbls, res) ==
    [called |-> TRUE, ok |-> Violations(tbls, res, FkList(tbls, 1)) = <<>>,
     violations |-> Violations(tbls, res, FkList(tbls, 1))]

\* verify_referential_integrity() called on the engine after sample_all()
CallVerify ==
    /\ pc = "done"
    /\ ~verification.called
    /\ verification' = VerifyReferentialIntegrity(tables, results)
    /\ UNCHANGED <<inputVars, runVars, configVars, resolverVars, ruleVars, managerVars,
                   engineVars, opts, main_pc, exit_code, connected, output, report>>

----------------------------------------------------------------------------
(* cli.py: the program run once more on the same database and options *)

\* A new process builds a new resolver and a new engine; its str hashes, and
\* with them the iteration order of its sets of table names, are its own.
RunAgain ==
    /\ pc = "done"
    /\ ~first_run.ran
    /\ first_run' = [ran |-> TRUE, keys |-> result_keys, rows |-> results]
    /\ hashOrd' \in Perms(HashNames(tables))
    /\ insertion_order' = <<>>
    /\ pc' = "ready"
    /\ idx' = 0
    /\ results' = Empty
    /\ result_keys' = <<>>
    /\ sampled_rows' = Empty
    /\ row_count' = Empty
    /\ warnings' = <<>>
    /\ UNCHANGED <<tables, limit_rules, db, ordered, ordered_desc, exclude_columns, verbose,
                   use_staging, constraint_order, circular, ruleVars, managerVars, staging,
                   mainVars, configVars>>

----------------------------------------------------------------------------
(* staging.py: StagingManager.create_schema and drop_schema *)

MaxCalls == 4        \* calls made on one StagingManager

\* Where a statement of the call raises: nowhere, or at the existence query,
\* the DROP or the CREATE (privilege, lock, connection).
FailPoints == {"none", "select", "drop", "create"}

\* A create_schema that drops an existing schema whether or not force is set.
CreateSchemaEffect_AlwaysForce(created, exists, force, fail) ==
    IF fail = "select"
    THEN [ret |-> FALSE, stmts |-> <<"SELECT">>, error |-> TRUE,
          created |-> created, exists |-> exists]
    ELSE IF exists /\ fail = "drop"
    THEN [ret |-> FALSE, stmts |-> <<"SELECT", "DROP">>, error |-> TRUE,
          created |-> created, exists |-> exists]
    ELSE LET pre == IF exists THEN <<"SELECT", "DROP">> ELSE <<"SELECT">>
         IN  IF fail = "create"
             THEN [ret |-> FALSE, stmts |-> Append(pre, "CREATE"), error |-> TRUE,
                   created |-> created, exists |-> FALSE]
             ELSE [ret |-> TRUE, stmts |-> Append(pre, "CREATE"), error |-> FALSE,
                   created |-> TRUE, exists |-> TRUE]

\* create_schema(force): returned value, the statements issued and the state
\* left behind.  Every statement is committed on its own.
CreateSchemaEffect(created, exists, force, fail) ==
    IF fail = "select"
    THEN [ret |-> FALSE, stmts |-> <<"SELECT">>, error |-> TRUE,
          created |-> created, exists |-> exists]
    ELSE IF exists /\ ~force
    THEN [ret |-> FALSE, stmts |-> <<"SELECT">>, error |-> FALSE,
          created |-> created, exists |-> exists]
    ELSE IF exists /\ fail = "drop"
    THEN [ret |-> FALSE, stmts |-> <<"SELECT", "DROP">>, error |-> TRUE,
          created |-> created, exists |-> exists]
    ELSE LET pre == IF exists THEN <<"SELECT", "DROP">> ELSE <<"SELECT">>
         IN  IF fail = "create"
             THEN [ret |-> FALSE, stmts |-> Append(pre, "CREATE"), error |-> TRUE,
                   created |-> created, exists |-> FALSE]
             ELSE [ret |-> TRUE, stmts |-> Append(pre, "CREATE"), error |-> FALSE,
                   created |-> TRUE, exists |-> TRUE]

\* A drop_schema that forgets to clear the flag.
DropSchemaEffect_KeepFlag(created, exists, fail) ==
    IF ~created
    THEN [stmts |-> <<>>, error |-> FALSE, created |-> created, exists |-> exists]
    ELSE IF fail = "drop"
    THEN [stmts |-> <<"DROP">>, error |-> TRUE, created |-> created, exists |-> exists]
    ELSE [stmts |-> <<"DROP">>, error |-> FALSE, created |-> created, exists |-> FALSE]

\* drop_schema(): it returns early unless the flag is set; a failing DROP is
\* logged and swallowed, and the flag is cleared only after the commit.
DropSchemaEffect(created, exists, fail) ==
    IF ~created
    THEN [stmts |-> <<>>, error |-> FALSE, created |-> created, exists |-> exists]
    ELSE IF fail = "drop"
    THEN [stmts |-> <<"DROP">>, error |-> TRUE, created |-> created, exists |-> exists]
    ELSE [stmts |-> <<"DROP">>, error |-> FALSE, created |-> FALSE, exists |-> FALSE]

ManagerIdle == schema_exists = FALSE /\ schema_created = FALSE /\ mgr_log = <<>>

CreateSchema ==
    \E force \in BOOLEAN, fail \in FailPoints :
        LET e == CreateSchemaEffect(schema_created, schema_exists, force, fail)
        IN  /\ Len(mgr_log) < MaxCalls
            /\ schema_created' = e.created
            /\ schema_exists' = e.exists
            /\ mgr_log' = Append(mgr_log,
                   [op |-> "create", force |-> force, ret |-> e.ret,
                    stmts |-> e.stmts, error |-> e.error,
                    created |-> e.created, exists |-> e.exists])
            /\ UNCHANGED <<inputVars, runVars, configVars, mainVars, resolverVars, ruleVars, engineVars>>

DropSchema ==
    \E fail \in {"none", "drop"} :
        LET e == DropSchemaEffect(schema_created, schema_exists, fail)
        IN  /\ Len(mgr_log) < MaxCalls
            /\ schema_created' = e.created
            /\ schema_exists' = e.exists
            /\ mgr_log' = Append(mgr_log,
                   [op |-> "drop", force |-> FALSE, ret |-> TRUE,
                    stmts |-> e.stmts, error |-> e.error,
                    created |-> e.created, exists |-> e.exists])
            /\ UNCHANGED <<inputVars, runVars, configVars, mainVars, resolverVars, ruleVars, engineVars>>

----------------------------------------------------------------------------
(* sampling.py: parse_limit_rules *)

\* str.split(sep) for a one-character separator
RECURSIVE SplitOn(_, _)
SplitOn(s, sep) ==
    IF \A i \in DOMAIN s : s[i] # sep THEN <<s>>
    ELSE LET i == CHOOSE i \in DOMAIN s :
                      s[i] = sep /\ \A j \in 1..(i - 1) : s[j] # sep
         IN  <<SubSeq(s, 1, i - 1)>> \o SplitOn(SubSeq(s, i + 1, Len(s)), sep)

\* str.strip() on strings whose only whitespace is the blank
RECURSIVE Strip(_)
Strip(s) ==
    IF s # <<>> /\ Head(s) = " " THEN Strip(Tail(s))
    ELSE IF s # <<>> /\ s[Len(s)] = " " THEN Strip(SubSeq(s, 1, Len(s) - 1))
    ELSE s

\* c in s
Contains(s, c) == \E i \in DOMAIN s : s[i] = c

\* s.split(sep, 1) of a string that contains sep
SplitFirst(s, sep) ==
    LET i == CHOOSE i \in DOMAIN s : s[i] = sep /\ \A j \in 1..(i - 1) : s[j] # sep
    IN  <<SubSeq(s, 1, i - 1), SubSeq(s, i + 1, Len(s))>>

EndsWith(s, c) == s # <<>> /\ s[Len(s)] = c

\* str.upper() on the letters of the keyword
Upper(c) ==
    CASE c = "w" -> "W" [] c = "h" -> "H" [] c = "e" -> "E" [] c = "r" -> "R"
      [] OTHER -> c

\* s.upper().startswith(prefix)
UpperStartsWith(s, prefix) ==
    /\ Len(s) >= Len(prefix)
    /\ \A i \in DOMAIN prefix : Upper(s[i]) = prefix[i]

Digits == <<"0", "1", "2", "3", "4", "5", "6", "7", "8", "9">>

IsDigit(c) == \E d \in DOMAIN Digits : Digits[d] = c

DigitValue(c) == (CHOOSE d \in DOMAIN Digits : Digits[d] = c) - 1

RECURSIVE DecimalValue(_)
DecimalValue(s) ==
    IF s = <<>> THEN 0
    ELSE 10 * DecimalValue(SubSeq(s, 1, Len(s) - 1)) + DigitValue(s[Len(s)])

\* The literal without its sign.
Unsigned(s) == IF s # <<>> /\ Head(s) \in {"+", "-"} THEN Tail(s) ELSE s

\* int(s) does not raise ValueError: surrounding blanks, an optional sign and
\* a run of ASCII digits.
IsInt(s) ==
    LET body == Unsigned(Strip(s))
    IN  body # <<>> /\ \A i \in DOMAIN body : IsDigit(body[i])

\* int(s)
IntValue(s) ==
    IF Head(Strip(s)) = "-" THEN 0 - DecimalValue(Unsigned(Strip(s)))
    ELSE DecimalValue(Unsigned(Strip(s)))

\* float(s) does not raise ValueError, for literals written without a point,
\* an exponent or the words inf and nan: the same shape as an int literal.
IsFloat(s) == IsInt(s)

\* float(s) for such a literal: no fractional part.
FloatValue(s) == IntValue(s)

\* "pattern=value"
RuleSpec(pattern, value) == pattern \o <<"=">> \o value

\* The stripped items of all specs that contain "=", in order.
RECURSIVE RuleStrings(_)
RuleStrings(limit_specs) ==
    IF limit_specs = <<>> THEN <<>>
    ELSE LET parts    == SplitOn(Head(limit_specs), ",")
             stripped == [k \in DOMAIN parts |-> Strip(parts[k])]
             HasEq(r) == Contains(r, "=")
         IN  SelectSeq(stripped, HasEq) \o RuleStrings(Tail(limit_specs))

\* pattern, value = rule_str.split("=", 1), both stripped
PatternOf(rule_str) == Strip(SplitFirst(rule_str, "=")[1])
ValueOf(rule_str) == Strip(SplitFirst(rule_str, "=")[2])

\* The item makes float() raise ValueError.
RuleRaises(rule_str) ==
    LET value == ValueOf(rule_str)
    IN  /\ value # <<"*">>
        /\ EndsWith(value, "%")
        /\ ~IsFloat(SubSeq(value, 1, Len(value) - 1))

\* parse_limit_rules raises ValueError.
ParseRaises(limit_specs) ==
    \E k \in DOMAIN RuleStrings(limit_specs) : RuleRaises(RuleStrings(limit_specs)[k])

\* The LimitRule built from one item; None is 0.
ParseRule(rule_str) ==
    LET pattern == PatternOf(rule_str)
        value   == ValueOf(rule_str)
    IN  IF value = <<"*">> THEN MkRule(pattern, "full", 0)
        ELSE IF EndsWith(value, "%")
        THEN MkRule(pattern, "percentage", FloatValue(SubSeq(value, 1, Len(value) - 1)))
        ELSE IF UpperStartsWith(value, <<"W", "H", "E", "R", "E">>) \/ Contains(value, " ")
        THEN MkRule(pattern, "conditional", value)
        ELSE IF IsInt(value) THEN MkRule(pattern, "numeric", IntValue(value))
        ELSE MkRule(pattern, "conditional", value)

\* parse_limit_rules(limit_specs) when it returns.
ParseLimitRules(limit_specs) ==
    [k \in DOMAIN RuleStrings(limit_specs) |-> ParseRule(RuleStrings(limit_specs)[k])]

----------------------------------------------------------------------------
(* cli.py: main(), from the discovered schema to the exit of the process *)

EXIT_SUCCESS == 0
EXIT_GENERAL_ERROR == 1
EXIT_CONNECTION_ERROR == 2
EXIT_INTEGRITY_ERROR == 4
EXIT_CONFIG_ERROR == 5
EXIT_IO_ERROR == 6

STAGING_THRESHOLD_TABLES == 50
STAGING_THRESHOLD_FKS == 5

\* use_staging_flag: the explicit flags first, then the size heuristic.
UseStagingFlag(o, tbls) ==
    IF o.no_staging THEN FALSE
    ELSE IF o.use_staging THEN TRUE
    ELSE \/ Len(tbls) > STAGING_THRESHOLD_TABLES
         \/ \E i \in DOMAIN tbls : Len(tbls[i].foreign_keys) > STAGING_THRESHOLD_FKS

\* sys.exit(code)
Exit(code) == main_pc' = "exited" /\ exit_code' = code

\* The estimate for a table whose limit_rule.value the rule holds is unknown.
UnknownEstimate == -1

\* estimated_count of the dry run for a table of source_count rows.
EstimatedCount(rule, source_count) ==
    CASE rule.limit_type = "none" -> Min(100, source_count)
      [] rule.limit_type = "full" -> source_count
      [] rule.limit_type = "percentage" -> Max(1, (source_count * rule.value) \div 100)
      [] rule.limit_type = "conditional" -> UnknownEstimate
      [] OTHER -> Min(rule.value, source_count)

\* The values the dry run can obtain as a table's row count: n_live_tup of
\* pg_stat_user_tables where the statistics hold one (an estimate), else
\* COUNT(*), and 0 where the count query fails.
SourceCounts(rows) == 0..Len(rows)

\* main(): the dry-run branch.  It issues count queries only and exits 0.
DryRun ==
    /\ main_pc = "discovered"
    /\ opts.dry_run
    /\ \E counts \in [TableNameSet(tables) ->
                        UNION {SourceCounts(db[qn]) : qn \in TableNameSet(tables)}] :
           /\ \A qn \in TableNameSet(tables) : counts[qn] \in SourceCounts(db[qn])
           /\ report' = [qn \in TableNameSet(tables) |->
                  [source |-> counts[qn],
                   estimated |->
                       EstimatedCount(
                           RuleAt(limit_rules,
                                  FindLimitRule(TableOf(tables, qn), limit_rules)),
                           counts[qn])]]
    /\ Exit(EXIT_SUCCESS)
    /\ UNCHANGED <<inputVars, runVars, configVars, resolverVars, ruleVars, managerVars,
                   engineVars, opts, connected, verification, output>>

\* The record a StagingManager call leaves in mgr_log.
LogEntry(op, force, ret, e) ==
    [op |-> op, force |-> force, ret |-> ret, stmts |-> e.stmts,
     error |-> e.error, created |-> e.created, exists |-> e.exists,
     existed |-> schema_exists]

\* main(): "Try to create staging schema if needed", with the fallback to
\* direct mode when create_schema() returns False.
SetupStaging ==
    /\ main_pc = "discovered"
    /\ ~opts.dry_run
    /\ IF UseStagingFlag(opts, tables)
       THEN \E fail \in FailPoints :
                LET e == CreateSchemaEffect(FALSE, schema_exists, opts.force, fail)
                IN  /\ schema_created' = e.created
                    /\ schema_exists' = e.exists
                    /\ mgr_log' = Append(mgr_log, LogEntry("create", opts.force, e.ret, e))
                    /\ use_staging' = e.ret
       ELSE /\ use_staging' = FALSE
            /\ UNCHANGED managerVars
    /\ main_pc' = "engine"
    /\ UNCHANGED <<tables, hashOrd, limit_rules, db, ordered, ordered_desc,
                   exclude_columns, verbose, runVars, configVars, resolverVars, ruleVars, engineVars,
                   opts, exit_code, connected, verification, output, report>>

\* main(): sampling_engine = SamplingEngine(...), then the try block is entered.
BuildEngine ==
    /\ main_pc = "engine"
    /\ main_pc' = "sampling"
    /\ pc' = "ready"
    /\ UNCHANGED <<inputVars, runVars, configVars, resolverVars, ruleVars, managerVars, idx,
                   results, result_keys, sampled_rows, row_count, warnings, staging, opts, exit_code,
                   connected, verification, output, report>>

\* The next step of sample_all() executes a statement on the connection.
ExecutesStatement ==
    \/ pc \in {"sampling", "reading"}
    \/ /\ pc = "resolving"
       /\ idx <= Len(FkList(tables, 1))
       /\ LET table == tables[FkList(tables, 1)[idx][1]]
              fk    == table.foreign_keys[FkList(tables, 1)[idx][2]]
          IN  /\ Resolvable(tables, table, fk, results)
              /\ use_staging \/ Missing(table, fk, results, sampled_rows) # {}

\* A statement of sample_all() fails: the error is wrapped in RuntimeError and
\* raised out of sample_all().
QueryFails ==
    /\ main_pc = "sampling"
    /\ ExecutesStatement
    /\ pc' = "failed"
    /\ UNCHANGED <<inputVars, runVars, configVars, mainVars, resolverVars, ruleVars,
                   managerVars, idx, results, result_keys, sampled_rows, row_count, warnings, staging>>

\* drop_schema() as main() calls it: only with a manager and without --keep.
CleanupStaging ==
    IF use_staging /\ ~opts.keep
    THEN \E fail \in {"none", "drop"} :
             LET e == DropSchemaEffect(schema_created, schema_exists, fail)
             IN  /\ schema_created' = e.created
                 /\ schema_exists' = e.exists
                 /\ mgr_log' = Append(mgr_log, LogEntry("drop", FALSE, TRUE, e))
                 /\ staging' = IF e.exists THEN staging ELSE Empty
    ELSE UNCHANGED <<managerVars, staging>>

\* A main() that goes on with whatever a failed sample_all() left behind.
SampleAllReturned_Lenient(p) == p \in {"done", "failed"}

\* sample_all() returned its result map; otherwise it raised.
SampleAllReturned(p) == p = "done"

\* main(): the finally block around sample_all(); an exception then reaches
\* "except Exception" or "except KeyboardInterrupt", both exit 1.
Cleanup ==
    /\ main_pc = "sampling"
    /\ pc \in {"done", "failed", "interrupted"}
    /\ CleanupStaging
    /\ IF SampleAllReturned(pc)
       THEN main_pc' = "sampled" /\ UNCHANGED exit_code
       ELSE Exit(EXIT_GENERAL_ERROR)
    /\ UNCHANGED <<inputVars, runVars, configVars, resolverVars, ruleVars, pc, idx, results,
                   result_keys, sampled_rows, row_count, warnings, opts, connected, verification,
                   output, report>>

\* A gate that lets every sample through.
GatePasses_Always(o, v) == TRUE

\* Output generation is reached: --verify not given, or is_valid.
GatePasses(o, v) == ~o.verify \/ v.ok

\* main(): the --verify gate.
Verify ==
    /\ main_pc = "sampled"
    /\ verification' = IF opts.verify
                       THEN VerifyReferentialIntegrity(tables, results)
                       ELSE verification
    /\ IF GatePasses(opts, verification')
       THEN /\ main_pc' = "output"
            /\ UNCHANGED <<exit_code, managerVars, staging>>
       ELSE /\ CleanupStaging
            /\ Exit(EXIT_INTEGRITY_ERROR)
    /\ UNCHANGED <<inputVars, runVars, configVars, resolverVars, ruleVars, pc, idx, results,
                   result_keys, sampled_rows, row_count, warnings, opts, connected, output, report>>

\* main(): the output is opened and generated; an I/O error ends the run.
GenerateOutput ==
    /\ main_pc = "output"
    /\ \/ output' = <<"open", "generate">> /\ Exit(EXIT_SUCCESS)
       \/ output' = <<"open">> /\ Exit(EXIT_GENERAL_ERROR)
       \/ output' = <<"open_error">> /\ Exit(EXIT_GENERAL_ERROR)
    /\ UNCHANGED <<inputVars, runVars, configVars, resolverVars, ruleVars, managerVars,
                   engineVars, opts, connected, verification, report>>

\* KeyboardInterrupt: inside the try block the finally block still runs,
\* anywhere else main() goes straight to its handler.
Interrupt ==
    /\ main_pc \in {"discovered", "engine", "sampling", "sampled", "output"}
    /\ IF main_pc = "sampling" /\ pc \notin {"done", "failed", "interrupted"}
       THEN pc' = "interrupted" /\ UNCHANGED <<main_pc, exit_code>>
       ELSE Exit(EXIT_GENERAL_ERROR) /\ UNCHANGED pc
    /\ main_pc = "sampling" => pc \notin {"done", "failed", "interrupted"}
    /\ UNCHANGED <<inputVars, runVars, configVars, resolverVars, ruleVars, managerVars, idx,
                   results, result_keys, sampled_rows, row_count, warnings, staging, opts, connected,
                   verification, output, report>>

\* main(): option validation, the database name fallback and rule parsing,
\* all before the connection is attempted.  A ValueError of parse_limit_rules
\* reaches the outer "except Exception".
ValidateOptions ==
    /\ main_pc = "start"
    /\ IF opts.ordered_asc /\ opts.ordered_desc
       THEN Exit(EXIT_CONFIG_ERROR) /\ UNCHANGED <<limit_rules, ordered_desc>>
       ELSE IF ~opts.dbname /\ ~opts.env_dbname
       THEN Exit(EXIT_CONFIG_ERROR) /\ UNCHANGED <<limit_rules, ordered_desc>>
       ELSE IF ParseRaises(opts.limit)
       THEN Exit(EXIT_GENERAL_ERROR) /\ UNCHANGED <<limit_rules, ordered_desc>>
       ELSE /\ main_pc' = "validated"
            /\ ordered_desc' = IF opts.ordered_asc THEN FALSE ELSE opts.ordered_desc
            /\ limit_rules' = ParseLimitRules(opts.limit)
            /\ UNCHANGED exit_code
    /\ UNCHANGED <<tables, hashOrd, db, ordered, exclude_columns, verbose, use_staging,
                   runVars, configVars, resolverVars, ruleVars, managerVars, engineVars,
                   opts, connected, verification, output, report>>

\* main(): db_conn.connect() either opens the connection or raises
\* OperationalError.
Connect ==
    /\ main_pc = "validated"
    /\ \/ connected' = TRUE /\ main_pc' = "connected" /\ UNCHANGED exit_code
       \/ Exit(EXIT_CONNECTION_ERROR) /\ UNCHANGED connected
    /\ UNCHANGED <<inputVars, runVars, configVars, resolverVars, ruleVars, managerVars,
                   engineVars, opts, verification, output, report>>

----------------------------------------------------------------------------
(* config.py: merge_config_with_cli, and the merge at the top of main() *)

\* Option values are written as tuples of tokens: a scalar option holds
\* None or one token, a multiple option the tuple of its items.
None == <<>>
Some(v) == <<v>>

\* One option of each kind: a string without default, an integer with a
\* default, a boolean flag, and a multiple option.
OptionKeys == {"host", "port", "verify", "limit"}

\* The keys merge_config_with_cli treats with isinstance(value, tuple); click
\* passes () for them when the option is absent, never None.
TupleKeys == {"limit"}

\* What click passes for an option that is absent from the command line.
Default(k) ==
    CASE k = "host" -> None
      [] k = "port" -> Some("5432")
      [] k = "verify" -> Some("False")
      [] k = "limit" -> <<>>

\* dict.get(key, default)
Get(d, k, default) == IF k \in DOMAIN d THEN d[k] ELSE default

\* merge_config_with_cli(config, cli_args)
MergeConfigWithCli(config, cli) ==
    LET Specified(k) == k \in DOMAIN cli /\ (k \in TupleKeys \/ cli[k] # None)
    IN  [k \in DOMAIN config \cup {c \in DOMAIN cli : Specified(c)} |->
            IF ~Specified(k) THEN config[k]
            ELSE IF k \in TupleKeys
            THEN IF cli[k] # <<>> THEN cli[k] ELSE Get(config, k, <<>>)
            ELSE cli[k]]

\* main(): the option variables after "if config_values:" and the block of
\* merged_config.get(...) assignments.
EffectiveOptions(config, cli) ==
    IF DOMAIN config = {} THEN cli
    ELSE LET merged == MergeConfigWithCli(config, cli)
         IN  [k \in DOMAIN cli |->
                 IF k \in TupleKeys
                 THEN IF Get(merged, k, <<>>) # <<>> THEN Get(merged, k, cli[k])
                      ELSE cli[k]
                 ELSE Get(merged, k, cli[k])]

\* main(): load the configuration file and merge it with the CLI arguments.
MergeConfig ==
    /\ main_pc = "entry"
    /\ effective' = EffectiveOptions(config_values, cli_args)
    /\ main_pc' = "merged"
    /\ UNCHANGED <<inputVars, runVars, resolverVars, ruleVars, managerVars,
                   engineVars, opts, exit_code, connected, verification, output,
                   report, given, cli_args, config_values>>

----------------------------------------------------------------------------
(* Inputs: names, columns and table descriptors *)

MaxFks == 2          \* FKs declared by one table in the resolver's inputs

SchemaP == <<"p">>
NameA == <<"a">>
NameB == <<"b">>
NameC == <<"c">>
NameX == <<"x">>     \* a table that is never discovered (excluded or filtered)

ColId  == <<"i", "d">>
ColRef == <<"r">>
ColVal == <<"v">>

\* An FK of the column r to the column id of p.<target>.
FkTo(target) ==
    [name |-> <<"r">> \o target, columns |-> <<ColRef>>,
     referenced_schema |-> SchemaP, referenced_table |-> target,
     referenced_columns |-> <<ColId>>]

MkTable(name, pk, targets) ==
    [schema |-> SchemaP, name |-> name, columns |-> <<ColId, ColRef, ColVal>>,
     primary_key |-> pk,
     foreign_keys |-> [k \in DOMAIN targets |-> FkTo(targets[k])]]

\* The FK target lists of one table: up to MaxFks distinct targets.
TargetLists ==
    UNION {{s \in [1..n -> {NameA, NameB, NameC, NameX}] :
               \A i, j \in 1..n : i < j => StrLess(s[i], s[j])} : n \in 0..MaxFks}

\* What discovery can hand to the resolver: p.a, p.b, p.c in the catalog's
\* ORDER BY nspname, relname, each with any of the target lists.
ResolverInputs ==
    {<<MkTable(NameA, <<ColId>>, ta), MkTable(NameB, <<ColId>>, tb),
       MkTable(NameC, <<ColId>>, tc)>> :
        ta \in TargetLists, tb \in TargetLists, tc \in TargetLists}

----------------------------------------------------------------------------
(* The resolver as a state machine: its two public ordering calls *)

NotCalled == <<<<"?">>>>

\* Neither method about cycles has been called.
NoCircular == [has_called |-> FALSE, has |-> FALSE, groups_called |-> FALSE, groups |-> <<>>]

ResolverIdle ==
    /\ insertion_order = NotCalled
    /\ constraint_order = NotCalled
    /\ circular = NoCircular

CallHasCircularDependencies ==
    /\ circular' = [circular EXCEPT !.has_called = TRUE,
                                    !.has = HasCircularDependencies(tables, hashOrd)]
    /\ UNCHANGED <<inputVars, runVars, configVars, mainVars, insertion_order,
                   constraint_order, ruleVars, managerVars, engineVars>>

CallGetCircularGroups ==
    /\ circular' = [circular EXCEPT !.groups_called = TRUE,
                                    !.groups = GetCircularGroups(tables, hashOrd)]
    /\ UNCHANGED <<inputVars, runVars, configVars, mainVars, insertion_order,
                   constraint_order, ruleVars, managerVars, engineVars>>

CallGetInsertionOrder ==
    /\ insertion_order' = GetInsertionOrder(tables, hashOrd)
    /\ UNCHANGED <<inputVars, runVars, configVars, mainVars, constraint_order, circular,
                   ruleVars, managerVars, engineVars>>

CallGetConstraintCreationOrder ==
    /\ constraint_order' = GetConstraintCreationOrder(tables, hashOrd)
    /\ UNCHANGED <<inputVars, runVars, configVars, mainVars, insertion_order, circular,
                   ruleVars, managerVars, engineVars>>

InitDeps ==
    /\ tables \in ResolverInputs
    /\ hashOrd \in Perms(HashNames(tables))
    /\ limit_rules = <<>>
    /\ NoDatabase
    /\ ResolverIdle
    /\ RulesIdle
    /\ ManagerIdle
    /\ EngineIdle

NextDeps ==
    \/ CallGetInsertionOrder
    \/ CallGetConstraintCreationOrder
    \/ CallHasCircularDependencies
    \/ CallGetCircularGroups

SpecDeps == InitDeps /\ [][NextDeps]_vars

----------------------------------------------------------------------------
(* Claims about the resolver (checked under SpecDeps) *)

RECURSIVE Closure(_, _)
Closure(g, S) ==
    LET n == S \cup UNION {g[x] : x \in S}
    IN  IF n = S THEN S ELSE Closure(g, n)

\* The tables reachable from a along one or more FK edges.
Reachable(tbls, a) == Closure(DependencyGraph(tbls), DependencyGraph(tbls)[a])

SameCycle(tbls, a, b) == b \in Reachable(tbls, a) /\ a \in Reachable(tbls, b)

HasCycle(tbls) == \E a \in TableNameSet(tbls) : a \in Reachable(tbls, a)

LexSorted(S) ==
    CHOOSE s \in Perms(S) : \A i, j \in DOMAIN s : i < j => StrLess(s[i], s[j])

\* C4: for every edge A->B of the dependency graph, B appears no later than A
\* in get_insertion_order() unless A and B belong to the same cycle.
C4_TopologicalSoundness ==
    insertion_order # NotCalled =>
        \A a, b \in TableNameSet(tables) :
            b \in DependencyGraph(tables)[a] =>
                \/ IndexOf(insertion_order, b) <= IndexOf(insertion_order, a)
                \/ SameCycle(tables, a, b)

\* C5: get_insertion_order() is a permutation of the discovered tables (every
\* qualified name exactly once, length = number of nodes) and
\* get_constraint_creation_order() is that list reversed.
C5_Permutation ==
    /\ insertion_order # NotCalled =>
            /\ Len(insertion_order) = Len(tables)
            /\ \A qn \in TableNameSet(tables) :
                   Cardinality({i \in DOMAIN insertion_order :
                                   insertion_order[i] = qn}) = 1
    /\ (insertion_order # NotCalled /\ constraint_order # NotCalled) =>
            /\ Len(constraint_order) = Len(insertion_order)
            /\ \A i \in DOMAIN insertion_order :
                   constraint_order[Len(insertion_order) + 1 - i] = insertion_order[i]

\* C5's case: both orders were computed for a graph with a two-table cycle, a
\* self-reference and an FK to a table outside the discovered set.
C5_Witness ==
    /\ insertion_order # NotCalled
    /\ constraint_order # NotCalled
    /\ \E a, b \in TableNameSet(tables) : a # b /\ SameCycle(tables, a, b)
    /\ \E c \in TableNameSet(tables) : c \in DependencyGraph(tables)[c]
    /\ \E i \in DOMAIN tables : \E k \in DOMAIN tables[i].foreign_keys :
           RefTable(tables[i].foreign_keys[k]) \notin TableNameSet(tables)

\* C6: get_insertion_order() is the deterministic order: tables without
\* dependencies first in discovery order, later releases tie-broken by
\* discovery order, the leftover of Kahn's algorithm in lexicographic order.
C6_DeterministicOrder ==
    insertion_order # NotCalled =>
        LET kahn == KahnResult(tables, TableNames(tables))
        IN  insertion_order = kahn \o LexSorted(TableNameSet(tables) \ Range(kahn))

----------------------------------------------------------------------------
(* The rule matcher on its own: rule lists and tables with mixed case *)

MaxRules == 2        \* rules in a rule list

Patterns ==
    {<<"*">>, <<"a">>, <<"A", "*">>, <<"*", "b">>, <<"p", ".", "*">>,
     <<"P", ".", "a">>, <<"*", ".", "a">>, <<"q", "*">>, <<"b">>, <<"*", "a", "*">>}

RuleLists ==
    UNION {[1..n -> {MkRule(pt, "numeric", 1) : pt \in Patterns}] : n \in 0..MaxRules}

RuleTables ==
    <<MkTable(<<"A", "b">>, <<ColId>>, <<>>), MkTable(NameA, <<ColId>>, <<>>),
      MkTable(NameB, <<ColId>>, <<>>),
      [MkTable(NameA, <<ColId>>, <<>>) EXCEPT !.schema = <<"q">>],
      [MkTable(<<"b", "a">>, <<ColId>>, <<>>) EXCEPT !.schema = <<"q">>]>>

InitRules ==
    /\ tables = RuleTables
    /\ hashOrd = <<>>
    /\ limit_rules \in RuleLists
    /\ NoDatabase
    /\ ResolverIdle
    /\ RulesIdle
    /\ ManagerIdle
    /\ EngineIdle

NextRules == CallFindLimitRule

SpecRules == InitRules /\ [][NextRules]_vars

----------------------------------------------------------------------------
(* Claims about rule matching (checked under SpecRules) *)

RECURSIVE Consumed(_, _)
Consumed(f, n) == IF n = 0 THEN 0 ELSE f[n] + Consumed(f, n - 1)

\* The pattern matches the text: the text splits into one piece per pattern
\* character, any piece for "*" and for another character that one character
\* up to case.
GlobMatches(pattern, text) ==
    \E f \in [DOMAIN pattern -> 0..Len(text)] :
        /\ Consumed(f, Len(pattern)) = Len(text)
        /\ \A k \in DOMAIN pattern :
              pattern[k] # "*" =>
                  /\ f[k] = 1
                  /\ Fold(text[Consumed(f, k)]) = Fold(pattern[k])

Governs(rule, table) ==
    \/ GlobMatches(rule.pattern, QualifiedName(table))
    \/ GlobMatches(rule.pattern, table.name)
    \/ GlobMatches(rule.pattern, table.schema \o <<".", "*">>)

\* C7: _find_limit_rule(t) returns the first rule in declaration order whose
\* pattern matches t's schema.table, its bare name or schema.* (case-insensitive,
\* * as wildcard), and returns no rule exactly when no pattern matches.
C7_RulePrecedence ==
    found # NoCall =>
        LET t == TableOf(tables, found.table)
        IN  /\ found.rule \in 0..Len(limit_rules)
            /\ found.rule # 0 =>
                   /\ Governs(limit_rules[found.rule], t)
                   /\ \A j \in 1..(found.rule - 1) : ~Governs(limit_rules[j], t)
            /\ found.rule = 0 =>
                   \A j \in DOMAIN limit_rules : ~Governs(limit_rules[j], t)

\* C7's case: two different rules both match the table, the first only up to
\* case, and the table is governed by the first.
C7_Witness ==
    /\ found # NoCall
    /\ Len(limit_rules) = 2
    /\ limit_rules[1].pattern = <<"A", "*">>
    /\ limit_rules[2].pattern = <<"*", "b">>
    /\ found.table = <<"p", ".", "A", "b">>
    /\ Governs(limit_rules[2], TableOf(tables, found.table))
    /\ found.rule = 1

----------------------------------------------------------------------------
(* The staging manager on its own: any sequence of create and drop calls, on a
   database where the schema may exist before the run *)

InitManager ==
    /\ tables = <<>>
    /\ hashOrd = <<>>
    /\ limit_rules = <<>>
    /\ NoDatabase
    /\ ResolverIdle
    /\ RulesIdle
    /\ EngineIdle
    /\ schema_exists \in BOOLEAN
    /\ schema_created = FALSE
    /\ mgr_log = <<>>

NextManager == CreateSchema \/ DropSchema

SpecManager == InitManager /\ [][NextManager]_vars

----------------------------------------------------------------------------
(* Claims about staging cleanup (checked under SpecManager) *)

IsDrop(c) == c.op = "drop"

IsForcedCreate(c) == c.op = "create" /\ c.force

CreateSucceededBefore(i) ==
    \E j \in 1..(i - 1) : mgr_log[j].op = "create" /\ mgr_log[j].ret

\* drop_schema() issues nothing if create_schema() never succeeded on this
\* manager.
DropIsNoOpBeforeCreate ==
    \A i \in DOMAIN mgr_log :
        (IsDrop(mgr_log[i]) /\ ~CreateSucceededBefore(i)) => mgr_log[i].stmts = <<>>

\* A create_schema(force=True) that succeeds leaves the schema existing and the
\* flag set, the first time and every time after.
ForcedCreateIdempotent ==
    \A i \in DOMAIN mgr_log :
        /\ (IsForcedCreate(mgr_log[i]) /\ mgr_log[i].ret) =>
               mgr_log[i].exists /\ mgr_log[i].created
        /\ (i > 1 /\ IsForcedCreate(mgr_log[i - 1]) /\ mgr_log[i - 1].ret
                  /\ IsForcedCreate(mgr_log[i]) /\ mgr_log[i].ret) =>
               /\ mgr_log[i].exists = mgr_log[i - 1].exists
               /\ mgr_log[i].created = mgr_log[i - 1].created
               /\ mgr_log[i].stmts = <<"SELECT", "DROP", "CREATE">>

----------------------------------------------------------------------------
(* The sampling engine as a state machine: one run of sample_all() *)

NRows == 2

\* The FK of a sampled table: none, or the column r to p.a or to p.b.
SampleTargets == {<<>>, <<NameA>>, <<NameB>>}

\* Three discovered tables in catalog order, at least one of them without FK.
SampleSchemas ==
    {<<MkTable(NameA, <<ColId>>, ta), MkTable(NameB, <<ColId>>, tb),
       MkTable(NameC, <<ColId>>, tc)>> :
        <<ta, tb, tc>> \in {s \in SampleTargets \X SampleTargets \X SampleTargets :
                              \E k \in 1..3 : s[k] = <<>>}}

\* The contents a table can have: ids 1..NRows in heap order, r NULL or the id
\* of a row of the referenced table, v never NULL.
TableContents(table) ==
    {[i \in 1..NRows |-> <<i, ref[i], 10 * i>>] :
        ref \in [1..NRows -> IF table.foreign_keys = <<>> THEN {NULL}
                             ELSE {NULL} \cup 1..NRows]}

Databases(tbls) ==
    {d \in [TableNameSet(tbls) -> UNION {TableContents(tbls[i]) : i \in DOMAIN tbls}] :
        \A i \in DOMAIN tbls : d[QualifiedName(tbls[i])] \in TableContents(tbls[i])}

SampleRules ==
    {<<MkRule(<<"*">>, "numeric", 1)>>, <<MkRule(<<"*">>, "full", 0)>>, <<>>}

SampleExcludes == {<<>>, <<ColVal>>}

InitEngine ==
    /\ first_run = NoRun
    /\ ConfigIdle
    /\ MainIdle
    /\ tables \in SampleSchemas
    /\ hashOrd \in Perms(HashNames(tables))
    /\ limit_rules \in SampleRules
    /\ db \in Databases(tables)
    /\ ordered \in BOOLEAN
    /\ ordered_desc \in (IF ordered THEN BOOLEAN ELSE {TRUE})
    /\ exclude_columns \in SampleExcludes
    /\ verbose = FALSE
    /\ ResolverIdle
    /\ RulesIdle
    /\ ManagerIdle
    /\ EngineIdle

\* sample_all() without a staging manager
InitSample == InitEngine /\ use_staging = FALSE

NextSample == StartSampling \/ SampleTable \/ ResolveForeignKey \/ ReturnResults

Spec == InitSample /\ [][NextSample]_vars

\* sample_all() with use_staging and a staging manager
InitStaging == InitEngine /\ use_staging = TRUE

NextStaging ==
    \/ StartSampling
    \/ StageTable
    \/ ResolveForeignKeyStaging
    \/ ReadStaging
    \/ ReturnStagingResults

SpecStaging == InitStaging /\ [][NextStaging]_vars

\* Two runs of the program with --ordered, without staging
InitRerun == InitSample /\ ordered /\ exclude_columns = <<>>

NextRerun ==
    \/ StartSampling
    \/ SampleTable
    \/ ResolveForeignKey
    \/ ReturnResults
    \/ RunAgain

SpecRerun == InitRerun /\ [][NextRerun]_vars

----------------------------------------------------------------------------
(* main() as a state machine: one run of the program after discovery *)

\* p.a, p.b(r -> p.a), p.c(r -> p.b)
ChainSchema ==
    <<MkTable(NameA, <<ColId>>, <<>>), MkTable(NameB, <<ColId>>, <<NameA>>),
      MkTable(NameC, <<ColId>>, <<NameB>>)>>

\* The databases of the chain in which every row of p.b and p.c holds a reference.
ChainDatabases ==
    {d \in Databases(ChainSchema) :
        \A i \in {2, 3} : \A k \in 1..NRows :
            d[QualifiedName(ChainSchema[i])][k][2] # NULL}

\* --limit "*=1" and --limit "c=1,*=0"
MainLimits ==
    {<<RuleSpec(<<"*">>, <<"1">>)>>,
     <<RuleSpec(<<"c">>, <<"1">>) \o <<",">> \o RuleSpec(<<"*">>, <<"0">>)>>}

MainOptions ==
    {[NoOptions EXCEPT !.dry_run = d, !.verify = v, !.keep = k, !.force = f,
                       !.use_staging = u, !.no_staging = n, !.ordered = TRUE,
                       !.dbname = TRUE, !.limit = l] :
        d \in BOOLEAN, v \in BOOLEAN, k \in BOOLEAN, f \in BOOLEAN,
        u \in BOOLEAN, n \in BOOLEAN, l \in MainLimits}

InitMain ==
    /\ first_run = NoRun
    /\ ConfigIdle
    /\ tables = ChainSchema
    /\ hashOrd \in Perms(HashNames(tables))
    /\ opts \in MainOptions
    /\ limit_rules = ParseLimitRules(opts.limit)
    /\ db \in ChainDatabases
    /\ ordered = TRUE
    /\ ordered_desc = TRUE
    /\ exclude_columns = <<>>
    /\ verbose = FALSE
    /\ use_staging = FALSE
    /\ ResolverIdle
    /\ RulesIdle
    /\ schema_exists \in BOOLEAN
    /\ schema_created = FALSE
    /\ mgr_log = <<>>
    /\ pc = "unbuilt"
    /\ idx = 0
    /\ results = Empty
    /\ result_keys = <<>>
    /\ sampled_rows = Empty
    /\ row_count = Empty
    /\ warnings = <<>>
    /\ staging = Empty
    /\ main_pc = "discovered"
    /\ exit_code = Running
    /\ connected = TRUE
    /\ verification = NoVerification
    /\ output = <<>>
    /\ report = <<>>

NextMain ==
    \/ DryRun
    \/ SetupStaging
    \/ BuildEngine
    \/ StartSampling
    \/ SampleTable
    \/ ResolveForeignKey
    \/ ReturnResults
    \/ StageTable
    \/ ResolveForeignKeyStaging
    \/ ReadStaging
    \/ ReturnStagingResults
    \/ QueryFails
    \/ Interrupt
    \/ Cleanup
    \/ Verify
    \/ GenerateOutput

SpecMain == InitMain /\ [][NextMain]_vars

----------------------------------------------------------------------------
(* main() from its entry to the connection attempt *)

\* The values written after "=" in a --limit option.
LimitValues ==
    {<<"*">>, <<"1">>, <<"-", "1">>, <<"5", "0", "%">>, <<"0", "%">>,
     <<"1", "5", "0", "%">>, <<"-", "5", "%">>, <<"a", "b", "%">>, <<"%">>,
     <<"a", "b">>, <<"a", " ", "b">>, <<"w", "h", "e", "r", "e", "b">>, <<>>}

\* The --limit options of one invocation: none, one rule for every table, an
\* item without "=", and a comma-separated list with blanks.
LimitOptions ==
    {<<>>, <<<<"a", "b">>>>,
     <<RuleSpec(<<"a">>, <<"1">>) \o <<",", " ">> \o RuleSpec(<<"*", " ">>, <<" ", "*">>)>>}
        \cup {<<RuleSpec(<<"*">>, v)>> : v \in LimitValues}

\* What click hands to main(): ordered_desc is True when --ordered-desc is
\* absent, and the flag's flag_value, which depends on the click release,
\* when it is present.
ConfigOptions ==
    {o \in {[NoOptions EXCEPT !.ordered = TRUE, !.ordered_asc = a,
                              !.desc_given = g, !.ordered_desc = d,
                              !.dbname = n, !.env_dbname = e, !.limit = l] :
                a \in BOOLEAN, g \in BOOLEAN, d \in BOOLEAN, n \in BOOLEAN,
                e \in BOOLEAN, l \in LimitOptions} :
        o.desc_given \/ o.ordered_desc}

InitConfig ==
    /\ first_run = NoRun
    /\ ConfigIdle
    /\ tables = <<>>
    /\ hashOrd = <<>>
    /\ db = Empty
    /\ exclude_columns = <<>>
    /\ verbose = FALSE
    /\ use_staging = FALSE
    /\ ResolverIdle
    /\ RulesIdle
    /\ ManagerIdle
    /\ EngineIdle
    /\ opts \in ConfigOptions
    /\ ordered = opts.ordered
    /\ ordered_desc = opts.ordered_desc
    /\ limit_rules = <<>>
    /\ main_pc = "start"
    /\ exit_code = Running
    /\ connected = FALSE
    /\ verification = NoVerification
    /\ output = <<>>
    /\ report = <<>>

NextConfig == ValidateOptions \/ Connect

SpecConfig == InitConfig /\ [][NextConfig]_vars

----------------------------------------------------------------------------
(* main() with a configuration file *)

\* The value an option has when it is given on the command line.
GivenValue(k) ==
    CASE k = "host" -> Some("h1")
      [] k = "port" -> Some("6000")
      [] k = "verify" -> Some("True")
      [] k = "limit" -> <<"c=1">>

\* The values a configuration file can define for a key.
FileValues(k) ==
    CASE k = "host" -> {Some("h2")}
      [] k = "port" -> {Some("7000")}
      [] k = "verify" -> {Some("True"), Some("False")}
      [] k = "limit" -> {<<"f=2">>, <<>>}

\* The configuration files: any subset of the keys, each with one of its values.
ConfigFiles ==
    UNION {{f \in [D -> UNION {FileValues(k) : k \in D}] :
               \A k \in D : f[k] \in FileValues(k)} : D \in SUBSET OptionKeys}

InitMerge ==
    /\ first_run = NoRun
    /\ tables = <<>>
    /\ hashOrd = <<>>
    /\ limit_rules = <<>>
    /\ db = Empty
    /\ ordered = FALSE
    /\ ordered_desc = TRUE
    /\ exclude_columns = <<>>
    /\ verbose = FALSE
    /\ use_staging = FALSE
    /\ ResolverIdle
    /\ RulesIdle
    /\ ManagerIdle
    /\ EngineIdle
    /\ opts = NoOptions
    /\ main_pc = "entry"
    /\ exit_code = Running
    /\ connected = FALSE
    /\ verification = NoVerification
    /\ output = <<>>
    /\ report = <<>>
    /\ given \in SUBSET OptionKeys
    /\ cli_args = [k \in OptionKeys |-> IF k \in given THEN GivenValue(k) ELSE Default(k)]
    /\ config_values \in ConfigFiles
    /\ effective = <<>>

NextMerge == MergeConfig

SpecMerge == InitMerge /\ [][NextMerge]_vars

----------------------------------------------------------------------------
(* sample_all() in direct mode under percentage rules *)

MaxRows == 3

\* The --limit options "*=p%".
PercentLimits ==
    {<<RuleSpec(<<"*">>, v)>> :
        v \in {<<"1", "0", "%">>, <<"5", "0", "%">>, <<"6", "7", "%">>,
               <<"1", "0", "0", "%">>}}

\* Three tables; p.c has a nullable foreign key to p.a.
FlatSchema ==
    <<MkTable(NameA, <<ColId>>, <<>>), MkTable(NameB, <<ColId>>, <<>>),
      MkTable(NameC, <<ColId>>, <<NameA>>)>>

\* Each table holds between 0 and MaxRows rows; no row of p.c holds a
\* reference, so that the closure pass leaves the initial samples as they are.
FlatDatabases ==
    [TableNameSet(FlatSchema) ->
        {[i \in 1..n |-> <<i, NULL, 10 * i>>] : n \in 0..MaxRows}]

InitPercent ==
    /\ first_run = NoRun
    /\ ConfigIdle
    /\ MainIdle
    /\ tables = FlatSchema
    /\ hashOrd \in Perms(HashNames(tables))
    /\ limit_rules \in {ParseLimitRules(l) : l \in PercentLimits}
    /\ db \in FlatDatabases
    /\ ordered \in BOOLEAN
    /\ ordered_desc = TRUE
    /\ exclude_columns = <<>>
    /\ verbose = FALSE
    /\ use_staging = FALSE
    /\ ResolverIdle
    /\ RulesIdle
    /\ ManagerIdle
    /\ EngineIdle

SpecPercent == InitPercent /\ [][NextSample]_vars

----------------------------------------------------------------------------
(* sample_all() and verify_referential_integrity() on a schema with a table
   that has no primary key *)

\* p.a has a primary key, p.b has none; p.c references p.b through r.
NoPkSchema ==
    <<MkTable(NameA, <<ColId>>, <<>>), MkTable(NameB, <<>>, <<>>),
      MkTable(NameC, <<ColId>>, <<NameB>>)>>

InitNoPk ==
    /\ first_run = NoRun
    /\ ConfigIdle
    /\ MainIdle
    /\ tables = NoPkSchema
    /\ hashOrd \in Perms(HashNames(tables))
    /\ limit_rules \in {<<MkRule(<<"*">>, "numeric", 1)>>, <<MkRule(<<"*">>, "full", 0)>>}
    /\ db \in Databases(tables)
    /\ ordered \in BOOLEAN
    /\ ordered_desc = TRUE
    /\ exclude_columns = <<>>
    /\ verbose \in BOOLEAN
    /\ use_staging = FALSE
    /\ ResolverIdle
    /\ RulesIdle
    /\ ManagerIdle
    /\ EngineIdle

NextNoPk ==
    StartSampling \/ SampleTable \/ ResolveForeignKey \/ ReturnResults \/ CallVerify

SpecNoPk == InitNoPk /\ [][NextNoPk]_vars

----------------------------------------------------------------------------
(* sample_all() in staging mode on tables of the same name in two schemas *)

SchemaQ == <<"q">>

\* p.a, p.b and q.a in catalog order; p.b references p.a through r.
TwoSchemas ==
    <<MkTable(NameA, <<ColId>>, <<>>), MkTable(NameB, <<ColId>>, <<NameA>>),
      [MkTable(NameA, <<ColId>>, <<>>) EXCEPT !.schema = SchemaQ]>>

\* The rows of q.a differ from those of p.a in the column v.
TwoSchemaDatabases ==
    {[qn \in TableNameSet(TwoSchemas) |->
         IF qn = SchemaQ \o Dot \o NameA
         THEN [i \in 1..n |-> <<i, NULL, 20 * i>>]
         ELSE IF qn = SchemaP \o Dot \o NameA
         THEN [i \in 1..m |-> <<i, NULL, 10 * i>>]
         ELSE b] :
        n \in 1..NRows, m \in 1..NRows, b \in TableContents(TwoSchemas[2])}

InitTwoSchemas ==
    /\ first_run = NoRun
    /\ ConfigIdle
    /\ MainIdle
    /\ tables = TwoSchemas
    /\ hashOrd \in Perms(HashNames(tables))
    /\ limit_rules \in {<<MkRule(<<"*">>, "numeric", 1)>>, <<MkRule(<<"*">>, "full", 0)>>}
    /\ db \in TwoSchemaDatabases
    /\ ordered \in BOOLEAN
    /\ ordered_desc = TRUE
    /\ exclude_columns = <<>>
    /\ verbose = FALSE
    /\ use_staging = TRUE
    /\ ResolverIdle
    /\ RulesIdle
    /\ ManagerIdle
    /\ EngineIdle

SpecTwoSchemas == InitTwoSchemas /\ [][NextStaging]_vars

----------------------------------------------------------------------------
(* sample_all() and verify_referential_integrity() on a foreign key that
   references a unique column other than the primary key *)

\* p.a references the unique column v of p.b through r; p.b's key is id.
UniqueRefSchema ==
    <<[MkTable(NameA, <<ColId>>, <<NameB>>) EXCEPT
          !.foreign_keys[1].referenced_columns = <<ColVal>>],
      MkTable(NameB, <<ColId>>, <<>>), MkTable(NameC, <<ColId>>, <<>>)>>

\* p.b holds the values 1..NRows in v in any order; r of p.a is NULL or one of
\* these values.
UniqueRefDatabases ==
    {[qn \in TableNameSet(UniqueRefSchema) |->
         IF qn = SchemaP \o Dot \o NameA THEN [i \in 1..NRows |-> <<i, ref[i], 10 * i>>]
         ELSE IF qn = SchemaP \o Dot \o NameB THEN [i \in 1..NRows |-> <<i, NULL, val[i]>>]
         ELSE [i \in 1..n |-> <<i, NULL, 10 * i>>]] :
        ref \in [1..NRows -> {NULL} \cup 1..NRows],
        val \in Perms(1..NRows), n \in 0..NRows}

InitUniqueRef ==
    /\ first_run = NoRun
    /\ ConfigIdle
    /\ MainIdle
    /\ tables = UniqueRefSchema
    /\ hashOrd \in Perms(HashNames(tables))
    /\ limit_rules \in {<<MkRule(<<"*">>, "numeric", 1)>>, <<MkRule(<<"*">>, "full", 0)>>}
    /\ db \in UniqueRefDatabases
    /\ ordered \in BOOLEAN
    /\ ordered_desc = TRUE
    /\ exclude_columns = <<>>
    /\ verbose = FALSE
    /\ use_staging = FALSE
    /\ ResolverIdle
    /\ RulesIdle
    /\ ManagerIdle
    /\ EngineIdle

SpecUniqueRef == InitUniqueRef /\ [][NextNoPk]_vars

----------------------------------------------------------------------------
(* sample_all() in direct mode with the primary-key column excluded *)

\* --exclude-column id: the key column of every table is projected as NULL.
InitExcludeKey ==
    /\ first_run = NoRun
    /\ ConfigIdle
    /\ MainIdle
    /\ tables \in SampleSchemas
    /\ hashOrd \in Perms(HashNames(tables))
    /\ limit_rules \in {<<MkRule(<<"*">>, "numeric", 1)>>, <<MkRule(<<"*">>, "full", 0)>>}
    /\ db \in Databases(tables)
    /\ ordered = FALSE
    /\ ordered_desc = TRUE
    /\ exclude_columns = <<ColId>>
    /\ verbose = FALSE
    /\ use_staging = FALSE
    /\ ResolverIdle
    /\ RulesIdle
    /\ ManagerIdle
    /\ EngineIdle

SpecExcludeKey == InitExcludeKey /\ [][NextSample]_vars

----------------------------------------------------------------------------
(* Claims about the sampling engine *)

Returned == pc = "done"

\* The row has a partner in the referenced table's result.
Resolves(table, fk, row, res) ==
    LET ref_table == TableOf(tables, RefTable(fk))
        value     == RowValue(table, row, fk.columns)
    IN  \/ \A k \in DOMAIN value : value[k] = NULL
        \/ \E j \in DOMAIN res[RefTable(fk)] :
               RowValue(ref_table, res[RefTable(fk)][j], fk.referenced_columns) = value

\* The closure law on a result: every FK between two sampled tables whose
\* target has a primary key resolves for every row.
ClosureLaw(res) ==
    \A i \in DOMAIN tables : \A k \in DOMAIN tables[i].foreign_keys :
        LET table == tables[i]
            fk    == table.foreign_keys[k]
        IN  (/\ QualifiedName(table) \in DOMAIN res
             /\ RefTable(fk) \in DOMAIN res
             /\ HasPrimaryKey(TableOf(tables, RefTable(fk))))
            => \A j \in DOMAIN res[QualifiedName(table)] :
                   Resolves(table, fk, res[QualifiedName(table)][j], res)

\* C1: after sample_all() returns in direct mode, every row of every sampled
\* table is NULL on each FK into a sampled table with a primary key, or its FK
\* value is the key of a row in that table's result.
C1_ClosureLawDirect == (Returned /\ ~use_staging) => ClosureLaw(results)

\* C2: the rows sample_all() reads back from staging and returns in staging
\* mode satisfy the closure law, the closure pass having staged the source
\* rows the staged rows point at.
C2_ClosureLawStaging == (Returned /\ use_staging) => ClosureLaw(results)

\* One more pass of _resolve_foreign_keys over the result would add no row.
FixpointReached ==
    \A i \in DOMAIN tables : \A k \in DOMAIN tables[i].foreign_keys :
        Resolvable(tables, tables[i], tables[i].foreign_keys[k], results)
            => Missing(tables[i], tables[i].foreign_keys[k], results, sampled_rows) = {}

\* The cycle a(r -> b), b(r -> a) beside a table without FK, one row per table.
IsTwoCycle ==
    /\ tables[1].foreign_keys = <<FkTo(NameB)>>
    /\ tables[2].foreign_keys = <<FkTo(NameA)>>
    /\ limit_rules = <<MkRule(<<"*">>, "numeric", 1)>>

\* C3: sample_all() returns in direct mode only once a full pass of the FK
\* closure adds no row; for the two-table cycle with one row sampled per table
\* every FK of every returned row resolves inside the sample.
C3_FixpointIteration ==
    (Returned /\ ~use_staging)
        => /\ FixpointReached
           /\ IsTwoCycle => ClosureLaw(results)

\* The returned row is a source row of the table with the excluded positions
\* set to NULL and every other position unchanged.
Masked(table, row) ==
    \E j \in DOMAIN db[QualifiedName(table)] :
        \A i \in DOMAIN table.columns :
            row[i] = IF table.columns[i] \in GetExcludedColumns(table, exclude_columns)
                     THEN NULL
                     ELSE db[QualifiedName(table)][j][i]

\* C8: every row sample_all() returns, drawn by the initial sample or added by
\* the FK closure, has NULL at the position of each excluded column and the
\* source row's value at every other position.
C8_ExclusionPositional ==
    Returned =>
        \A i \in DOMAIN tables :
            QualifiedName(tables[i]) \in DOMAIN results
                => \A j \in DOMAIN results[QualifiedName(tables[i])] :
                       Masked(tables[i], results[QualifiedName(tables[i])][j])

\* C10: with ordered set, a second run on the same database, rules and flags
\* returns the same tables in the same order with the same rows in the same
\* order as the first run.
C10_OrderedDeterminism ==
    (Returned /\ first_run.ran /\ ordered)
        => /\ result_keys = first_run.keys
           /\ results = first_run.rows

\* The sampled rows of a table, none when it has no entry in results.
RowsOf(res, qn) == IF qn \in DOMAIN res THEN res[qn] ELSE <<>>

\* The row r appended to table B is needed: it is a row of B whose
\* referenced-column tuple is a non-null FK value of a sampled row of a table
\* referencing B, and no row B held before carried that tuple.
Needed(B, r, old) ==
    /\ r \in Range(db[QualifiedName(B)])
    /\ \E i \in DOMAIN tables :
         \E k \in DOMAIN tables[i].foreign_keys :
           LET fk == tables[i].foreign_keys[k]
               v  == RowValue(B, r, fk.referenced_columns)
           IN  /\ RefTable(fk) = QualifiedName(B)
               /\ \E a \in Range(RowsOf(results, QualifiedName(tables[i]))) :
                      /\ RowValue(tables[i], a, fk.columns) = v
                      /\ ~HasNull(v)
               /\ \A o \in Range(old) : RowValue(B, o, fk.referenced_columns) # v

\* A step of the closure pass keeps every table's rows as a prefix and appends
\* needed rows only.
ClosureStepExact ==
    pc = "resolving" =>
        \A qn \in TableNameSet(tables) :
            LET old == RowsOf(results, qn)
                new == RowsOf(results', qn)
            IN  /\ Len(new) >= Len(old)
                /\ SubSeq(new, 1, Len(old)) = old
                /\ \A j \in (Len(old) + 1)..Len(new) :
                       Needed(TableOf(tables, qn), new[j], old)

\* A closure step on an FK whose referenced table has no primary key changes
\* no table's rows and logs a warning that names the constraint.
NoPkStep ==
    (pc = "resolving" /\ pc' = "resolving" /\ idx <= Len(FkList(tables, 1))) =>
        LET table == tables[FkList(tables, 1)[idx][1]]
            fk    == table.foreign_keys[FkList(tables, 1)[idx][2]]
        IN  SkippedWithoutPk(tables, table, fk, results) =>
                /\ results' = results
                /\ Len(warnings') = Len(warnings) + 1
                /\ warnings'[Len(warnings')].constraint = fk.name
                /\ warnings'[Len(warnings')].table = QualifiedName(table)

\* The constraints whose referenced table has no primary key.
NoPkConstraints ==
    {tables[i].foreign_keys[k].name : <<i, k>> \in
        {p \in Range(FkList(tables, 1)) :
            LET fk == tables[p[1]].foreign_keys[p[2]]
            IN  /\ RefTable(fk) \in TableNameSet(tables)
                /\ ~HasPrimaryKey(TableOf(tables, RefTable(fk)))}}

\* Verification reports no violation for such a constraint.
NoPkVerify ==
    \A k \in DOMAIN verification'.violations :
        verification'.violations[k].constraint \notin NoPkConstraints

\* C26: for an FK whose referenced table has no primary key, the closure pass
\* adds no row on its account and leaves the other tables as they are, a
\* warning naming the constraint is logged whatever the verbosity, and
\* verification never reports a violation for the constraint.
C26_NoPrimaryKeyTarget == [][NoPkStep /\ NoPkVerify]_vars

\* C27: in staging mode the rows read back for a source table are rows of
\* that table, never rows of another source table, also when two tables have
\* the same name in different schemas.
C27_OneStagingTablePerSource ==
    \A qn \in DOMAIN results :
        \A k \in DOMAIN results[qn] : results[qn][k] \in Range(db[qn])

\* The sampled row b of the referenced table matches the row a of the table on
\* the FK: a's local columns equal b's referenced columns, pair by pair.
Matches(table, a, ref_table, b, fk) ==
    \A k \in DOMAIN fk.columns :
        RowValue(table, a, <<fk.columns[k]>>) =
            RowValue(ref_table, b, <<fk.referenced_columns[k]>>)

\* A sampled row of the table holds a non-null FK value that no sampled row of
\* the referenced table matches.
Dangling(table, fk, res) ==
    LET ref_table == TableOf(tables, RefTable(fk))
    IN  \E a \in Range(res[QualifiedName(table)]) :
            /\ ~HasNull(RowValue(table, a, fk.columns))
            /\ ~\E b \in Range(IF RefTable(fk) \in DOMAIN res
                                THEN res[RefTable(fk)] ELSE <<>>) :
                    Matches(table, a, ref_table, b, fk)

\* After a closure step on an FK every referenced row that the source holds
\* for a sampled row of the table is among the referenced table's rows.
PairingStep ==
    (pc = "resolving" /\ ~use_staging /\ idx <= Len(FkList(tables, 1))) =>
        LET table == tables[FkList(tables, 1)[idx][1]]
            fk    == table.foreign_keys[FkList(tables, 1)[idx][2]]
            ref_table == TableOf(tables, RefTable(fk))
        IN  Resolvable(tables, table, fk, results) =>
                \A a \in Range(results[QualifiedName(table)]) :
                    (/\ ~HasNull(RowValue(table, a, fk.columns))
                     /\ \E b \in Range(db[RefTable(fk)]) :
                            Matches(table, a, ref_table, b, fk))
                    => \E b \in Range(results'[RefTable(fk)]) :
                            Matches(table, a, ref_table, b, fk)

\* Verification reports a violation for an FK exactly when a sampled row's
\* value has no match among the referenced table's sampled rows.
PairingVerify ==
    verification'.called =>
        \A p \in Range(FkList(tables, 1)) :
            LET table == tables[p[1]]
                fk    == table.foreign_keys[p[2]]
            IN  Verifiable(tables, table, fk, results) =>
                    ((\E k \in DOMAIN verification'.violations :
                         /\ verification'.violations[k].constraint = fk.name
                         /\ verification'.violations[k].table = QualifiedName(table))
                     <=> Dangling(table, fk, results))

\* C28: closure and verification compare the local columns of an FK with its
\* referenced columns pair by pair, also when the referenced columns are not
\* the referenced table's primary key: a closure step fetches the referenced
\* rows the table's sampled rows need, and verification reports exactly the
\* FKs with an unmatched value.
C28_ComponentwiseComparison == [][PairingStep /\ PairingVerify]_vars

\* C29: in direct mode, for every table with a primary key that has sampled
\* rows, sampled_rows holds exactly the primary-key projections of the rows,
\* row_count is the number of rows, and no two rows share a primary key.
C29_PresenceSet ==
    ~use_staging =>
        \A qn \in DOMAIN results :
            LET table == TableOf(tables, qn)
                rows  == results[qn]
                Pk(r) == Proj(r, ColIndices(table, table.primary_key))
            IN  HasPrimaryKey(table) =>
                    /\ qn \in DOMAIN sampled_rows
                    /\ sampled_rows[qn] = PkSet(table, rows)
                    /\ qn \in DOMAIN row_count
                    /\ row_count[qn] = Len(rows)
                    /\ \A i, j \in DOMAIN rows : i # j => Pk(rows[i]) # Pk(rows[j])

\* A step of the first loop stores at most LIMIT rows under a numeric rule.
InitialWithinLimit ==
    (pc = "sampling" /\ pc' # "failed") =>
        LET table == TableOf(tables, insertion_order[idx])
            rule  == RuleAt(limit_rules, FindLimitRule(table, limit_rules))
        IN  rule.limit_type = "numeric"
                => Len(RowsOf(results', insertion_order[idx])) <= rule.value

\* C16: every row the closure pass appends to a table is a row needed by a
\* non-null FK value of a sampled referencing row that the table lacked; the
\* pass never removes, reorders or alters the rows already there, and the
\* initial sample stays within a numeric LIMIT, so only such rows exceed it.
C16_ClosureExact == [][ClosureStepExact /\ InitialWithinLimit]_vars

\* The closure pass has pushed a table past its numeric limit.
C16_Witness ==
    /\ pc = "done"
    /\ \E i \in DOMAIN tables :
         LET rule == RuleAt(limit_rules, FindLimitRule(tables[i], limit_rules))
         IN  /\ rule.limit_type = "numeric"
             /\ Len(RowsOf(results, QualifiedName(tables[i]))) > rule.value

----------------------------------------------------------------------------
(* Claims about main() (checked under SpecMain) *)

\* The non-null FK tuples of the table's sampled rows that are the key of no
\* sampled row of the referenced table.
AbsentReferences(table, fk) ==
    LET ref_table == TableOf(tables, RefTable(fk))
        Held == {RowValue(table, results[QualifiedName(table)][j], fk.columns) :
                    j \in DOMAIN results[QualifiedName(table)]}
        Keys == {RowValue(ref_table, results[RefTable(fk)][j], fk.referenced_columns) :
                    j \in DOMAIN results[RefTable(fk)]}
    IN  {v \in Held : ~HasNull(v)} \ Keys

\* The FKs between two sampled tables whose target has a primary key.
SampledFks ==
    {f \in {<<i, k>> : i \in DOMAIN tables, k \in 1..MaxFks} :
        /\ f[2] \in DOMAIN tables[f[1]].foreign_keys
        /\ QualifiedName(tables[f[1]]) \in DOMAIN results
        /\ RefTable(tables[f[1]].foreign_keys[f[2]]) \in DOMAIN results
        /\ HasPrimaryKey(TableOf(tables, RefTable(tables[f[1]].foreign_keys[f[2]])))}

ViolatedFks ==
    {f \in SampledFks :
        AbsentReferences(tables[f[1]], tables[f[1]].foreign_keys[f[2]]) # {}}

\* C11: verify_referential_integrity() returns ok exactly when no FK between
\* two sampled tables (target with a primary key) has a non-null FK tuple
\* absent from the target's sampled keys, a target with an empty sample
\* included; each violation record counts the missing tuples and shows at most
\* 10 of them.
C11_VerifyExact ==
    verification.called =>
        /\ verification.ok <=> ViolatedFks = {}
        /\ \A n \in DOMAIN verification.violations :
               LET v == verification.violations[n]
               IN  /\ \E f \in ViolatedFks :
                          /\ QualifiedName(tables[f[1]]) = v.table
                          /\ tables[f[1]].foreign_keys[f[2]].name = v.constraint
                          /\ v.violation_count = Cardinality(
                                 AbsentReferences(tables[f[1]],
                                                  tables[f[1]].foreign_keys[f[2]]))
                   /\ v.sample_size <= 10

\* C12: when --verify is given and verification reports a violation the
\* process exits with status 4 having opened and written no output; output is
\* generated only after verification passed or was not requested.
C12_VerificationGate ==
    /\ (opts.verify /\ verification.called /\ ~verification.ok)
           => main_pc = "exited" /\ exit_code = 4 /\ output = <<>>
    /\ output # <<>> => ~opts.verify \/ (verification.called /\ verification.ok)
    /\ main_pc = "output" => ~opts.verify \/ (verification.called /\ verification.ok)

C12_Witness ==
    /\ opts.verify
    /\ verification.violations # <<>>
    /\ exit_code = 4
    /\ output = <<>>

\* C13: once a statement of sample_all() has failed, in either mode, no result
\* reaches verification or the output generator, and the process exits with a
\* non-zero status.
C13_AllOrNothing ==
    pc = "failed" =>
        /\ main_pc \in {"sampling", "exited"}
        /\ ~verification.called
        /\ output = <<>>
        /\ main_pc = "exited" => exit_code \notin {Running, 0}

C13_Witness ==
    /\ pc = "failed"
    /\ use_staging
    /\ staging # Empty
    /\ main_pc = "exited"
    /\ exit_code = 1

\* This run's create_schema() returned True.
CreatedByRun == mgr_log # <<>> /\ mgr_log[1].op = "create" /\ mgr_log[1].ret

\* C14: when this run created the staging schema, at process exit the schema
\* is gone after a normal completion unless --keep was given, and gone after
\* every failure or interrupt that followed the creation.
C14_StagingLifecycle ==
    (main_pc = "exited" /\ CreatedByRun) =>
        IF exit_code = 0 THEN opts.keep \/ ~schema_exists ELSE ~schema_exists

\* C15: when create_schema() returns False the created flag is false, the run
\* goes on in direct mode and issues nothing more against the staging schema,
\* and without --force a pre-existing schema is left as it was.
C15_SoftFailure ==
    (mgr_log # <<>> /\ mgr_log[1].op = "create" /\ ~mgr_log[1].ret) =>
        /\ ~mgr_log[1].created
        /\ ~schema_created
        /\ ~use_staging
        /\ pc \notin {"reading"}
        /\ Len(mgr_log) = 1
        /\ staging = Empty
        /\ schema_exists = mgr_log[1].exists
        /\ (mgr_log[1].existed /\ ~opts.force)
               => schema_exists /\ mgr_log[1].stmts = <<"SELECT">>

C15_Witness ==
    /\ mgr_log # <<>>
    /\ ~mgr_log[1].ret
    /\ mgr_log[1].existed
    /\ ~opts.force
    /\ schema_exists
    /\ exit_code = 0
    /\ output = <<"open", "generate">>

\* The limit the dry run should report against: the first matching rule's n,
\* 100 without a rule.
DryRunLimit(table) ==
    IF FindLimitRule(table, limit_rules) = 0 THEN 100
    ELSE limit_rules[FindLimitRule(table, limit_rules)].value

\* C17: a dry run creates no staging schema or table, executes no sample
\* SELECT, closure query or output generation, reports min(limit, row count)
\* for each table and exits 0, whatever the staging options.
C17_DryRun ==
    /\ opts.dry_run =>
           /\ mgr_log = <<>>
           /\ staging = Empty
           /\ pc = "unbuilt"
           /\ results = Empty
           /\ output = <<>>
    /\ (opts.dry_run /\ report # <<>>) =>
           /\ main_pc = "exited"
           /\ exit_code = 0
           /\ \A i \in DOMAIN tables :
                  report[QualifiedName(tables[i])].estimated
                      = Min(DryRunLimit(tables[i]), Len(db[QualifiedName(tables[i])]))

----------------------------------------------------------------------------
(* Claims about option validation (checked under SpecConfig) *)

\* main() has handed parsed rules to the rest of the run.
Validated == main_pc \in {"validated", "connected"} \/ connected

\* C18: every rule parse_limit_rules produced has one of the four variants; a
\* NUMERIC rule holds an integer n >= 0, a PERCENTAGE rule a p with
\* 0 < p <= 100, a FULL rule comes from the value "*" only, and a CONDITIONAL
\* rule from a value that is not "*", does not end in "%" and is no integer
\* literal.
C18_RuleInvariants ==
    Validated =>
        \A k \in DOMAIN limit_rules :
            LET rule  == limit_rules[k]
                value == ValueOf(RuleStrings(opts.limit)[k])
            IN  /\ rule.limit_type \in {"numeric", "percentage", "full", "conditional"}
                /\ rule.limit_type = "numeric" => rule.value >= 0
                /\ rule.limit_type = "percentage" => rule.value > 0 /\ rule.value <= 100
                /\ rule.limit_type = "full" => value = <<"*">>
                /\ rule.limit_type = "conditional" =>
                       /\ value # <<"*">>
                       /\ ~EndsWith(value, "%")
                       /\ ~IsInt(value)

\* No database name from --dbname, the connection URI or the environment.
MissingDbname == ~opts.dbname /\ ~opts.env_dbname

\* C19: an unparseable rule value or a missing database name ends the process
\* with status 5 before a connection is opened.
C19_ConfigErrorsExit5 ==
    (main_pc # "start" /\ (ParseRaises(opts.limit) \/ MissingDbname)) =>
        /\ main_pc = "exited"
        /\ exit_code = 5
        /\ ~connected

\* C20: exit 5 for the ordering flags happens only when --ordered-asc and
\* --ordered-desc were both given; --ordered-asc alone is accepted and selects
\* ascending order, and neither flag leaves descending order.
C20_OrderingFlags ==
    main_pc # "start" =>
        /\ (exit_code = 5 /\ ~MissingDbname) => opts.ordered_asc /\ opts.desc_given
        /\ (opts.ordered_asc /\ ~opts.desc_given /\ ~MissingDbname
              /\ ~ParseRaises(opts.limit))
               => Validated /\ ~ordered_desc
        /\ (~opts.ordered_asc /\ ~opts.desc_given /\ Validated) => ordered_desc

----------------------------------------------------------------------------
(* Claims about the configuration file (checked under SpecMerge) *)

\* C21: after the merge every option holds the command-line value when the
\* flag was given, else the file's value when the file defines the key, else
\* the built-in default.
C21_ConfigPrecedence ==
    main_pc = "merged" =>
        \A k \in OptionKeys :
            effective[k] =
                IF k \in given THEN cli_args[k]
                ELSE IF k \in DOMAIN config_values THEN config_values[k]
                ELSE Default(k)

----------------------------------------------------------------------------
(* Claims about cycle detection (checked under SpecDeps) *)

\* Each member of the group has an edge to the next, the last to the first.
IsDirectedCycle(g, group) ==
    /\ group # <<>>
    /\ \A i \in DOMAIN group : group[(i % Len(group)) + 1] \in g[group[i]]

StartsAtSmallest(group) == \A j \in 2..Len(group) : StrLess(group[1], group[j])

\* What get_circular_groups() returned is a list of normalised directed
\* cycles, non-empty when the graph has a cycle.
GroupsAreCycles ==
    circular.groups_called =>
        /\ HasCycle(tables) => circular.groups # <<>>
        /\ \A n \in DOMAIN circular.groups :
               /\ IsDirectedCycle(DependencyGraph(tables), circular.groups[n])
               /\ StartsAtSmallest(circular.groups[n])

\* C22: has_circular_dependencies() is true exactly when the dependency graph
\* has a directed cycle (a self-reference included); then
\* get_circular_groups() is non-empty, and each group it returns is a directed
\* cycle starting at its lexicographically smallest member.
C22_CycleDetection ==
    /\ circular.has_called => (circular.has <=> HasCycle(tables))
    /\ GroupsAreCycles

----------------------------------------------------------------------------
(* Further claims about main() (checked under SpecMain) *)

\* The output file could not be opened, or generate() failed while writing or
\* compressing.
OutputFailed == output \in {<<"open_error">>, <<"open">>}

\* C23: when opening the output file, writing to it or compressing it fails,
\* the process exits with status 6.
C23_IoErrorsExit6 ==
    (main_pc = "exited" /\ OutputFailed) => exit_code = EXIT_IO_ERROR

----------------------------------------------------------------------------
(* Further claims about the engine *)

\* The table the first loop of sample_all() stands at is matched by no rule.
AtUnruledTable ==
    /\ pc \in {"sampling", "failed"}
    /\ FindLimitRule(TableOf(tables, insertion_order[idx]), limit_rules) = 0

\* C24: a table matched by no rule is sampled as under NUMERIC(100): its
\* sample query succeeds and its initial sample holds min(100, source rows)
\* rows.
C24_DefaultPolicy ==
    /\ AtUnruledTable => pc # "failed"
    /\ \A qn \in DOMAIN results :
           (pc = "sampling" /\ FindLimitRule(TableOf(tables, qn), limit_rules) = 0)
               => Len(results[qn]) = Min(100, Len(db[qn]))

\* C30: for every table and every policy the query _build_query returns has
\* as many bound parameters as its text has %s placeholders.
C30_QueryWellFormed ==
    \A i \in DOMAIN tables :
        SampleQuery(tables[i]).placeholders = Len(SampleQuery(tables[i]).params)

\* The percentage of the rule that matches the table.
PercentOf(qn) == limit_rules[FindLimitRule(TableOf(tables, qn), limit_rules)].value

====
